---- MODULE Spec2Model ----
(***************************************************************************)
(* Connection lifecycle and resilience manager of WhatsAppManager.js:      *)
(* the instance registry, the client event handlers, the health monitor,   *)
(* the keep-alive loop, the auto-reconnector and the operation recovery    *)
(* wrapper.                                                                *)
(*                                                                         *)
(* JavaScript objects are modelled as a heap: `instances` (the Map) holds  *)
(* references to instance records, every client closes over the record    *)
(* that setupClientEvents read from the Map when its listeners were       *)
(* attached, and every async function that is suspended at an `await` is  *)
(* an element of `pending` together with the locals it closed over.       *)
(* One action is one run of a callback from one suspension point to the   *)
(* next (the cooperative scheduler of Node.js).                           *)
(***************************************************************************)
EXTENDS Integers, FiniteSets, Sequences, TLC

\* ------------------------------------------------------------------ bounds
Ids == {"a"}
\* the keys the registry and the session store can hold: a second instance
\* exists in SpecPair only
AllIds == {"a", "b"}
MaxRecs == 2          \* instance records alive at the same time
MaxClients == 2       \* client objects alive at the same time
MaxPending == 2       \* suspended async calls and armed one-shot timers
AttemptCap == 10      \* cap on the reconnectAttempts counter
MaxFaults == 2        \* failures the environment injects in one run of SpecOps
MaxIds == 3           \* longest list of ids handed to getMultipleProfilePics
MaxBatchSize == 2     \* largest batchSize handed to getMultipleProfilePics
ContactIds == {"x", "y", "z"}
Urls == {"u"}

\* -------------------------------------------------------- program constants
maxReconnectAttempts == 8
cacheExpiry == 1800000

NoRec == 0
\* A client that was torn down can do nothing any more: every reference to it
\* is redirected to NoClient, so that only clients that can still act take a slot.
NoClient == 0
\* failures the environment injects in one run of SpecMix: a failed probe, a
\* failed call and a second failed probe
MixFaults == MaxFaults + 1
RecIds == 1..MaxRecs
ClientIds == 1..MaxClients

VARIABLES
    instances,   \* this.instances: id -> reference to an instance record, or NoRec
    heap,        \* the instance records
    clients,     \* the Client objects: life state and the record their listeners closed over
    pending,     \* suspended async calls and armed one-shot timers
    sessions,    \* SessionStore: does the directory sessions/<id> exist
    out,         \* what the last callback returned, threw or emitted
    faults,      \* failures injected so far (counted in SpecOps only)
    profilePicCache, \* this.profilePicCache: cache key -> {url, timestamp}
    now,         \* Date.now(), in milliseconds
    lookups,     \* the profile-picture lookups the client is working on
    call,        \* the getMultipleProfilePics call that is under way
    listing      \* the getChats call that is under way

vars == <<instances, heap, clients, pending, sessions, out, faults,
          profilePicCache, now, lookups, call, listing>>

\* the state of the chat listing and of the profile enrichment pipeline
enrichVars == <<profilePicCache, now, lookups, call, listing>>

FreeRec ==
    [id |-> "none", client |-> NoClient, status |-> "free", qr |-> FALSE,
     hasValidAuth |-> FALSE, skipQR |-> FALSE, isRecovered |-> FALSE,
     reconnecting |-> FALSE, reconnectAttempts |-> 0, keepAlive |-> FALSE]

\* announced: the client has emitted its first ready (recorded in SpecLive only)
FreeClient == [st |-> "free", rec |-> NoRec, announced |-> FALSE]

NoOut == [tag |-> "none", id |-> "none", res |-> "none", calls |-> 0, recov |-> 0]

Out(tag, id, res) == [tag |-> tag, id |-> id, res |-> res, calls |-> 0, recov |-> 0]

\* a suspended call or timer; unused fields keep their defaults
Pend(kind, pc, id, rec, client, origin, n) ==
    [kind |-> kind, pc |-> pc, id |-> id, rec |-> rec, client |-> client,
     origin |-> origin, n |-> n]

\* the whole state as one value, so that a handler is a function on states
St ==
    [inst |-> instances, heap |-> heap, cl |-> clients, pend |-> pending,
     sess |-> sessions, out |-> NoOut]

NewClient == [st |-> "new", rec |-> NoRec, announced |-> FALSE]

\* ------------------------------------------------------- garbage collection
\* A record is reachable from the Map, from a suspended call or timer, from a
\* client that can still emit events, or from its own keep-alive interval (whose
\* callback only acts while the record's status is ready).
RecLive(T, r) ==
    /\ T.heap[r].id # "none"
    /\ \/ \E i \in AllIds : T.inst[i] = r
       \/ \E p \in T.pend : p.rec = r
       \/ \E c \in ClientIds : T.cl[c].st \in {"new", "alive"} /\ T.cl[c].rec = r
       \/ T.heap[r].keepAlive /\ T.heap[r].status = "ready"

SweepRecs(T) ==
    [T EXCEPT !.heap = [r \in RecIds |-> IF RecLive(T, r) THEN T.heap[r] ELSE FreeRec]]

\* A client is reachable from a record, from a suspended call, or because its
\* listeners can still run against a record.
ClientLive(T, c) ==
    /\ T.cl[c].st # "free"
    /\ \/ \E r \in RecIds : T.heap[r].id # "none" /\ T.heap[r].client = c
       \/ \E p \in T.pend : p.client = c
       \/ T.cl[c].rec # NoRec

SweepClients(T) ==
    [T EXCEPT !.cl = [c \in ClientIds |-> IF ClientLive(T, c) THEN T.cl[c] ELSE FreeClient]]

Normalize(T) == SweepClients(SweepRecs(T))

Bounded(T) ==
    /\ Cardinality(T.pend) <= MaxPending
    /\ \A r \in RecIds : T.heap[r].reconnectAttempts <= AttemptCap

Apply(T) ==
    /\ Bounded(T)
    /\ LET N == Normalize(T) IN
        /\ instances' = N.inst
        /\ heap' = N.heap
        /\ clients' = N.cl
        /\ pending' = N.pend
        /\ sessions' = N.sess
        /\ out' = N.out
        /\ UNCHANGED enrichVars

\* allocation of a new object: the lowest free slot (0 when there is none, which
\* the guards of the actions exclude)
FreeRecSlots(T) == {r \in RecIds : T.heap[r].id = "none"}
FreeClientSlots(T) == {c \in ClientIds : T.cl[c].st = "free"}
NewRecSlot(T) ==
    IF FreeRecSlots(T) = {} THEN 0
    ELSE CHOOSE r \in FreeRecSlots(T) : \A q \in FreeRecSlots(T) : r <= q
NewClientSlot(T) ==
    IF FreeClientSlots(T) = {} THEN 0
    ELSE CHOOSE c \in FreeClientSlots(T) : \A q \in FreeClientSlots(T) : c <= q

clientSt(c) == IF c = NoClient THEN "closed" ELSE clients[c].st

\* ----------------------------------------------- profile enrichment: values
\* the instants at which the clock is read: a write, one millisecond before the
\* entry of that write expires, and the expiry itself
Times == {0, cacheExpiry - 1, cacheExpiry}

Null == "null"

\* profilePicCache.get(key) of a key that was never set
NoEntry == [url |-> Null, timestamp |-> -1]

\* `${instanceId}:${contactId}`
cacheKey(instanceId, contactId) == instanceId \o ":" \o contactId

CacheKeys == {cacheKey(i, c) : i \in Ids, c \in ContactIds}

\* new Map(): no id has a value yet
Unset == "unset"
EmptyMap == [c \in ContactIds |-> Unset]

\* no getMultipleProfilePics call is under way
Idle == [pc |-> "idle", id |-> "none", ids |-> <<>>, batchSize |-> 0, i |-> 0,
         items |-> <<>>, map |-> EmptyMap]

\* chat.timestamp of a chat that has none
NoTimestamp == -1

\* no getChats call is under way
NoListing ==
    [pc |-> "idle", id |-> "none", includeProfilePics |-> FALSE, limit |-> 0,
     offset |-> 0, allChats |-> <<>>, contacts |-> <<>>, groups |-> <<>>]

Init ==
    /\ listing = NoListing
    /\ profilePicCache = [k \in CacheKeys |-> NoEntry]
    /\ now = 0
    /\ lookups = {}
    /\ call = Idle
    /\ instances = [i \in AllIds |-> NoRec]
    /\ heap = [r \in RecIds |-> FreeRec]
    /\ clients = [c \in ClientIds |-> FreeClient]
    /\ pending = {}
    /\ sessions = [i \in AllIds |-> FALSE]
    /\ out = NoOut
    /\ faults = 0

\* ------------------------------------------------------------ createInstance
NewInstanceData(id, c) ==
    [id |-> id, client |-> c, status |-> "initializing", qr |-> FALSE,
     hasValidAuth |-> FALSE, skipQR |-> FALSE, isRecovered |-> FALSE,
     reconnecting |-> FALSE, reconnectAttempts |-> 0, keepAlive |-> FALSE]

\* setupClientEvents(instanceId, client): the listeners close over
\* this.instances.get(instanceId) as it is now (possibly undefined)
setupClientEvents(T, id, c) == [T EXCEPT !.cl[c].rec = T.inst[id]]

\* faulty variant: the has() check is missing, the entry is overwritten
createInstanceOverwrites(T, id) ==
    LET r == NewRecSlot(T)
        c == NewClientSlot(T)
    IN IF r = 0 \/ c = 0
       THEN [T EXCEPT !.out = Out("createInstance", id, "AlreadyExists")]
       ELSE LET T1 == [T EXCEPT !.heap[r] = NewInstanceData(id, c),
                                !.cl[c] = NewClient,
                                !.inst[id] = r]
            IN [setupClientEvents(T1, id, c) EXCEPT
                   !.out = Out("createInstance", id, "initializing")]

createInstance(T, id) ==
    IF T.inst[id] # NoRec
    THEN [T EXCEPT !.out = Out("createInstance", id, "AlreadyExists")]
    ELSE LET r == NewRecSlot(T)
             c == NewClientSlot(T)
             T1 == [T EXCEPT !.heap[r] = NewInstanceData(id, c),
                             !.cl[c] = NewClient,
                             !.inst[id] = r]
         IN [setupClientEvents(T1, id, c) EXCEPT !.out = Out("createInstance", id, "initializing")]

CreateInstance(id) ==
    /\ instances[id] # NoRec \/ (FreeRecSlots(St) # {} /\ FreeClientSlots(St) # {})
    /\ Apply(createInstance(St, id))

\* ---------------------------------------------------------- initializeInstance
\* client.initialize() launches the client; LocalAuth creates the session directory
startClient(T, id, c) ==
    IF c = NoClient THEN T
    ELSE [T EXCEPT !.cl[c].st = IF @ = "new" THEN "alive" ELSE @, !.sess[id] = TRUE]

initializeInstance(T, id) ==
    LET r == T.inst[id] IN
    IF r = NoRec THEN [T EXCEPT !.out = Out("initializeInstance", id, "NotFound")]
    ELSE IF T.heap[r].status = "ready" THEN [T EXCEPT !.out = Out("initializeInstance", id, "ready")]
    ELSE startClient(T, id, T.heap[r].client)

InitializeInstance(id) ==
    /\ instances[id] # NoRec
    /\ heap[instances[id]].status # "ready"
    /\ clientSt(heap[instances[id]].client) = "new"
    /\ Apply(initializeInstance(St, id))

\* ------------------------------------------------------------ keep-alive timer
\* startKeepAlive(instanceId): (re)arms the interval of the record that is in
\* the Map now; the interval's callback closes over that record
startKeepAlive(T, id) ==
    LET g == T.inst[id] IN
    IF g = NoRec THEN T ELSE [T EXCEPT !.heap[g].keepAlive = TRUE]

\* stopKeepAlive(instanceId): clears the interval of the record that is in the Map now
stopKeepAlive(T, id) ==
    LET g == T.inst[id] IN
    IF g = NoRec THEN T ELSE [T EXCEPT !.heap[g].keepAlive = FALSE]

\* ------------------------------------------------------------- client events
\* faulty variant: a session believed authenticated is not demoted
onQrKeepsAuth(T, r) ==
    LET h == T.heap[r]
    IN [T EXCEPT !.heap[r].status = "qr_ready",
                 !.pend = @ \cup {Pend("qrgen", "await", h.id, r, NoClient, "qr", 0)}]

\* 'qr' listener up to its await: an authenticated-looking session is demoted,
\* then the status is qr_ready; the data URL is stored when the await resumes
onQr(T, r) ==
    LET h == T.heap[r]
        demote == h.skipQR /\ h.hasValidAuth
        T1 == IF demote
              THEN [T EXCEPT !.heap[r].skipQR = FALSE, !.heap[r].hasValidAuth = FALSE,
                             !.heap[r].status = "qr_required"]
              ELSE T
    IN [T1 EXCEPT !.heap[r].status = "qr_ready",
                  !.pend = @ \cup {Pend("qrgen", "await", h.id, r, NoClient, "qr", 0)}]

\* 'qr' listener after its await: instance.qr = qrDataURL and the two emits
onQrGenerated(T, p) ==
    [T EXCEPT !.heap[p.rec].qr = TRUE, !.pend = @ \ {p}]

\* both 'authenticated' listeners, in registration order
onAuthenticated(T, r) ==
    [T EXCEPT !.heap[r].hasValidAuth = TRUE, !.heap[r].skipQR = TRUE,
              !.heap[r].status = "authenticated"]

\* both 'auth_failure' listeners, in registration order: the second overwrites the status
onAuthFailure(T, r) ==
    LET T1 == [T EXCEPT !.heap[r].hasValidAuth = FALSE, !.heap[r].skipQR = FALSE,
                        !.heap[r].status = "auth_failed"]
    IN [T1 EXCEPT !.heap[r].status = "auth_failure"]

\* both 'disconnected' listeners, in registration order
onDisconnected(T, r) ==
    LET id == T.heap[r].id
        T1 == [T EXCEPT !.heap[r].hasValidAuth = FALSE, !.heap[r].skipQR = FALSE,
                        !.heap[r].status = "disconnected"]
        T2 == stopKeepAlive(T1, id)
    IN [T2 EXCEPT !.heap[r].status = "disconnected", !.heap[r].reconnectAttempts = 0]

\* faulty variant: the 'ready' listener also resets the attempt counter
onReadyResets(T, r) ==
    LET id == T.heap[r].id
        T1 == [T EXCEPT !.heap[r].status = "ready", !.heap[r].qr = FALSE,
                        !.heap[r].hasValidAuth = TRUE, !.heap[r].skipQR = TRUE,
                        !.heap[r].reconnectAttempts = 0]
    IN startKeepAlive(T1, id)

\* 'ready' listener
onReady(T, r) ==
    LET id == T.heap[r].id
        T1 == [T EXCEPT !.heap[r].status = "ready", !.heap[r].qr = FALSE,
                        !.heap[r].hasValidAuth = TRUE, !.heap[r].skipQR = TRUE]
    IN startKeepAlive(T1, id)

Events == {"qr", "authenticated", "auth_failure", "disconnected", "ready"}

onEvent(T, r, ev) ==
    CASE ev = "qr" -> onQr(T, r)
      [] ev = "authenticated" -> onAuthenticated(T, r)
      [] ev = "auth_failure" -> onAuthFailure(T, r)
      [] ev = "disconnected" -> onDisconnected(T, r)
      [] ev = "ready" -> onReady(T, r)

\* a running client emits an event; its listeners act on the record they closed over
ClientEvent(c, ev) ==
    /\ clients[c].st = "alive"
    /\ clients[c].rec # NoRec
    /\ Apply(onEvent(St, clients[c].rec, ev))

\* a running client emits the ready that follows its start, once
ClientReadyOnce(c) ==
    /\ clients[c].st = "alive"
    /\ clients[c].rec # NoRec
    /\ ~clients[c].announced
    /\ Apply([onEvent(St, clients[c].rec, "ready") EXCEPT !.cl[c].announced = TRUE])

QrGenerated(p) ==
    /\ p.kind = "qrgen"
    /\ Apply(onQrGenerated(St, p))

\* ------------------------------------------------------ outcomes of client calls
\* getState(): only a running client can answer CONNECTED
ProbeOutcomes(c) ==
    IF clientSt(c) = "alive" THEN {TRUE, FALSE} ELSE {FALSE}

\* a suspended call as it reads once client c is torn down
Redirect(p, c) ==
    IF c # NoClient /\ p.client = c THEN [p EXCEPT !.client = NoClient] ELSE p

\* client.destroy(): whether it resolves or throws, the client no longer runs
destroyClient(T, c) ==
    IF c = NoClient THEN T
    ELSE [T EXCEPT !.cl[c] = FreeClient,
                   !.heap = [r \in RecIds |->
                       IF T.heap[r].client = c THEN [T.heap[r] EXCEPT !.client = NoClient]
                       ELSE T.heap[r]],
                   !.pend = {Redirect(p, c) : p \in T.pend}]

\* ------------------------------------------------------ attemptAutoReconnection
\* faulty variant: the give-up branch leaves the reconnecting flag set
attemptKeepsFlag(T, id, origin) ==
    LET r == T.inst[id] IN
    IF r = NoRec THEN T
    ELSE IF T.heap[r].reconnecting THEN T
    ELSE LET n == T.heap[r].reconnectAttempts + 1
             T1 == [T EXCEPT !.heap[r].reconnecting = TRUE,
                             !.heap[r].reconnectAttempts = n]
         IN IF n > maxReconnectAttempts
            THEN [T1 EXCEPT !.heap[r].status = "failed",
                            !.out = Out("emit", id, "status_changed_failed")]
            ELSE [T1 EXCEPT !.pend = @ \cup
                    {Pend("attempt", "destroy", id, r, T.heap[r].client, origin, 0)}]

\* reinitializeInstance from its call to its first await, client.destroy() of
\* the client the instance holds: an unknown id throws before anything is done
reinitializeInstance(T, id, origin) ==
    LET r == T.inst[id] IN
    IF r = NoRec THEN [T EXCEPT !.out = Out("reinitializeInstance", id, "NotFound")]
    ELSE [T EXCEPT !.pend = @ \cup
            {Pend("attempt", "destroy", id, r, T.heap[r].client, origin, 0)}]

\* from the call to the first await, which is client.destroy() in reinitializeInstance
attemptAutoReconnection(T, id, origin) ==
    LET r == T.inst[id] IN
    IF r = NoRec THEN T
    ELSE IF T.heap[r].reconnecting THEN T
    ELSE LET n == T.heap[r].reconnectAttempts + 1
             T1 == [T EXCEPT !.heap[r].reconnecting = TRUE,
                             !.heap[r].reconnectAttempts = n]
         IN IF n > maxReconnectAttempts
            THEN [T1 EXCEPT !.heap[r].status = "failed",
                            !.heap[r].reconnecting = FALSE,
                            !.out = Out("emit", id, "status_changed_failed")]
            ELSE reinitializeInstance(T1, id, origin)

\* faulty variant: the rebuild leaves the QR payload in place
reinitializeRebuildKeepsQr(T, p) ==
    LET r == p.rec
        T1 == destroyClient(T, p.client)
        c == NewClientSlot(T1)
        T2 == [T1 EXCEPT !.cl[c] = NewClient,
                         !.heap[r].client = c,
                         !.heap[r].status = "initializing"]
        T3 == startClient(setupClientEvents(T2, p.id, c), p.id, c)
    IN [T3 EXCEPT !.pend = (@ \ {Redirect(p, p.client)}) \cup
            {Pend("attempt", "init", p.id, r, c, p.origin, 0)}]

\* reinitializeInstance from the end of client.destroy() (errors swallowed) over
\* the 500 ms pause to the await of the new client's initialize()
reinitializeRebuild(T, p) ==
    LET r == p.rec
        T1 == destroyClient(T, p.client)
        c == NewClientSlot(T1)
        T2 == [T1 EXCEPT !.cl[c] = NewClient,
                         !.heap[r].client = c,
                         !.heap[r].status = "initializing",
                         !.heap[r].qr = FALSE]
        T3 == startClient(setupClientEvents(T2, p.id, c), p.id, c)
    IN [T3 EXCEPT !.pend = (@ \ {Redirect(p, p.client)}) \cup
            {Pend("attempt", "init", p.id, r, c, p.origin, 0)}]

\* the setTimeout callback armed by a failed attempt
retryTimerFires(T, p) ==
    LET T1 == [T EXCEPT !.pend = @ \ {p}] IN
    IF T.heap[p.rec].reconnectAttempts < maxReconnectAttempts
    THEN attemptAutoReconnection(T1, p.id, "retry")
    ELSE T1

\* the race of initialize() against the 120 s timer is decided
reinitializeDone(T, p, outcome) ==
    LET r == p.rec IN
    IF outcome = "resolved"
    THEN [T EXCEPT !.heap[r].reconnectAttempts = 0,
                   !.heap[r].reconnecting = FALSE,
                   !.pend = @ \ {p}]
    ELSE LET T1 == IF outcome = "rejected" THEN destroyClient(T, p.client) ELSE T
         IN [T1 EXCEPT !.heap[r].status = "disconnected",
                       !.heap[r].reconnecting = FALSE,
                       !.pend = (@ \ {p, Redirect(p, p.client)}) \cup
                           {Pend("timer", "armed", p.id, r, NoClient, "retry", 0)}]

InitOutcomes(c) ==
    IF clientSt(c) = "alive" THEN {"resolved", "rejected", "timeout"}
    ELSE {"rejected", "timeout"}

AttemptRebuild(p) ==
    /\ p.kind = "attempt" /\ p.pc = "destroy"
    /\ FreeClientSlots(destroyClient(St, p.client)) # {}
    /\ Apply(reinitializeRebuild(St, p))

AttemptDone(p, outcome) ==
    /\ p.kind = "attempt" /\ p.pc = "init"
    /\ outcome \in InitOutcomes(p.client)
    /\ Apply(reinitializeDone(St, p, outcome))

RetryTimer(p) ==
    /\ p.kind = "timer" /\ p.origin = "retry"
    /\ Apply(retryTimerFires(St, p))

\* the 1 s setTimeout callback armed by the health monitor or the keep-alive re-check
probeTimerFires(T, p) ==
    attemptAutoReconnection([T EXCEPT !.pend = @ \ {p}], p.id, p.origin)

ProbeTimer(p) ==
    /\ p.kind = "timer" /\ p.origin \in {"hm", "ka"}
    /\ Apply(probeTimerFires(St, p))

\* ------------------------------------------------------------ health monitor
\* the loop body up to the await inside checkSessionHealth
healthProbeStart(T, id) ==
    LET r == T.inst[id] IN
    [T EXCEPT !.pend = @ \cup {Pend("hm", "probe", id, r, T.heap[r].client, "hm", 0)}]

\* the loop body after the await
healthProbeDone(T, p, healthy) ==
    IF healthy
    THEN [T EXCEPT !.pend = @ \ {p}]
    ELSE [T EXCEPT !.heap[p.rec].status = "disconnected",
                   !.pend = (@ \ {p}) \cup
                       {Pend("timer", "armed", p.id, NoRec, NoClient, "hm", 0)}]

HealthExamine(id) ==
    /\ instances[id] # NoRec
    /\ heap[instances[id]].status = "ready"
    /\ Apply(healthProbeStart(St, id))

HealthProbeDone(p, healthy) ==
    /\ p.kind = "hm"
    /\ healthy \in ProbeOutcomes(p.client)
    /\ Apply(healthProbeDone(St, p, healthy))

\* ------------------------------------------------------------ auto-reconnector
\* faulty variant: the sweep does not look at hasValidAuth
sweepIgnoresAuth(h) == h.status = "disconnected" /\ ~h.reconnecting

sweepEligible(h) == h.status = "disconnected" /\ h.hasValidAuth /\ ~h.reconnecting

SweepExamine(id) ==
    /\ instances[id] # NoRec
    /\ sweepEligible(heap[instances[id]])
    /\ Apply(attemptAutoReconnection(St, id, "sweep"))

\* POST /instances/:instanceId/reconnect
manualEligible(h) == h.status = "disconnected"

ManualReconnect(id) ==
    /\ instances[id] # NoRec
    /\ manualEligible(heap[instances[id]])
    /\ Apply(attemptAutoReconnection(St, id, "manual"))

\* ------------------------------------------------------------ keep-alive loop
\* the interval callback up to its await of getState()
keepAliveTick(T, r) ==
    [T EXCEPT !.pend = @ \cup
        {Pend("ka", "probe", T.heap[r].id, r, T.heap[r].client, "ka", 0)}]

\* getState() settled: on a throw the 500 ms re-check timer is armed
keepAliveProbeDone(T, p, ok) ==
    IF ok THEN [T EXCEPT !.pend = @ \ {p}]
    ELSE [T EXCEPT !.pend = (@ \ {p}) \cup
            {Pend("ka", "t500", p.id, p.rec, NoClient, "ka", 0)}]

\* faulty variant: the verdict does not look at the status again
keepAliveVerdictBlind(T, p, healthy) ==
    LET T1 == [T EXCEPT !.pend = @ \ {p}] IN
    IF ~healthy
    THEN [T1 EXCEPT !.heap[p.rec].status = "disconnected",
                    !.pend = @ \cup {Pend("timer", "armed", p.id, NoRec, NoClient, "ka", 0)}]
    ELSE T1

\* the tail of the re-check callback, after checkSessionHealth returned
keepAliveVerdict(T, p, healthy) ==
    LET T1 == [T EXCEPT !.pend = @ \ {p}] IN
    IF ~healthy /\ T.heap[p.rec].status = "ready"
    THEN [T1 EXCEPT !.heap[p.rec].status = "disconnected",
                    !.pend = @ \cup {Pend("timer", "armed", p.id, NoRec, NoClient, "ka", 0)}]
    ELSE T1

\* the 500 ms callback: checkSessionHealth(instanceId) probes the client of the
\* record that is in the Map now, or answers false at once when there is none
keepAliveRecheckStart(T, p) ==
    LET g == T.inst[p.id] IN
    IF g = NoRec THEN keepAliveVerdict(T, p, FALSE)
    ELSE [T EXCEPT !.pend = (@ \ {p}) \cup
            {Pend("ka", "recheck", p.id, p.rec, T.heap[g].client, "ka", 0)}]

KeepAliveTick(r) ==
    /\ heap[r].keepAlive
    /\ heap[r].status = "ready"
    /\ Apply(keepAliveTick(St, r))

KeepAliveProbeDone(p, ok) ==
    /\ p.kind = "ka" /\ p.pc = "probe"
    /\ ok \in ProbeOutcomes(p.client)
    /\ Apply(keepAliveProbeDone(St, p, ok))

KeepAliveRecheckStart(p) ==
    /\ p.kind = "ka" /\ p.pc = "t500"
    /\ Apply(keepAliveRecheckStart(St, p))

KeepAliveRecheckDone(p, healthy) ==
    /\ p.kind = "ka" /\ p.pc = "recheck"
    /\ healthy \in ProbeOutcomes(p.client)
    /\ Apply(keepAliveVerdict(St, p, healthy))

\* ------------------------------------------------------ operation recovery wrapper
OpOut(id, res, calls, recov) ==
    [tag |-> "operation", id |-> id, res |-> res, calls |-> calls, recov |-> recov]

\* a client call of a wrapped operation: only a running client can succeed
CallOutcomes(c) ==
    IF clientSt(c) = "alive" THEN {"ok", "transient", "other"} ELSE {"transient", "other"}

\* operation(): the registry and readiness checks, then the call on the client.
\* n names the caller; calls counts the invocations of operation() made by this
\* executeWithRecovery, recov its recoveries; rest is what else is suspended.
operation(T, id, n, calls, recov, rest) ==
    LET r == T.inst[id]
        T1 == [T EXCEPT !.pend = rest]
    IN IF r = NoRec THEN [T1 EXCEPT !.out = OpOut(id, "NotFound", calls, recov)]
       ELSE IF T.heap[r].status # "ready"
            THEN [T1 EXCEPT !.out = OpOut(id, "NotReady", calls, recov)]
            ELSE [T1 EXCEPT !.pend = rest \cup
                    {Pend("op", IF calls = 1 THEN "first" ELSE "retry", id, r,
                          T.heap[r].client, "user", n)}]

\* attemptSessionRecovery up to its await of client.destroy()
attemptSessionRecovery(T, p) ==
    LET g == T.inst[p.id]
        T1 == [T EXCEPT !.pend = @ \ {p}]
    IN IF g = NoRec
       THEN [T1 EXCEPT !.out = OpOut(p.id, "RecoveryFailed", 1, 1)]
       ELSE [T1 EXCEPT !.heap[g].status = "recovering",
                       !.pend = @ \cup
                          {Pend("op", "rdestroy", p.id, g, T.heap[g].client, "user", p.n)}]

\* faulty variant: no error message is recognised as a session error
isSessionErrorNever(outcome) == FALSE

\* is the error of a failed call one of the three session signatures
isSessionError(outcome) == outcome = "transient"

\* faulty variant: an error that is no session error marks the instance disconnected
executeFirstDoneMarks(T, p, outcome) ==
    IF outcome = "ok" THEN [T EXCEPT !.pend = @ \ {p}, !.out = OpOut(p.id, "ok", 1, 0)]
    ELSE IF isSessionError(outcome) THEN attemptSessionRecovery(T, p)
    ELSE [T EXCEPT !.pend = @ \ {p}, !.out = OpOut(p.id, outcome, 1, 0),
                   !.heap[p.rec].status = "disconnected"]

\* executeWithRecovery after the first operation() settled
executeFirstDone(T, p, outcome) ==
    IF outcome = "ok" THEN [T EXCEPT !.pend = @ \ {p}, !.out = OpOut(p.id, "ok", 1, 0)]
    ELSE IF isSessionError(outcome) THEN attemptSessionRecovery(T, p)
    ELSE [T EXCEPT !.pend = @ \ {p}, !.out = OpOut(p.id, outcome, 1, 0)]

\* instanceData of recoverInstance
RecoveredInstanceData(id, c, auth) ==
    [id |-> id, client |-> c,
     status |-> IF auth THEN "authenticating" ELSE "recovering", qr |-> FALSE,
     hasValidAuth |-> auth, skipQR |-> auth, isRecovered |-> TRUE,
     reconnecting |-> FALSE, reconnectAttempts |-> 0, keepAlive |-> FALSE]

\* attemptSessionRecovery from the end of client.destroy() (errors swallowed) over
\* the 2 s pause into recoverInstance, up to its await of client.initialize();
\* auth is the verdict of hasValidSession on the session directory
recoverInstance(T, p, auth) ==
    LET T1 == destroyClient(T, p.client)
        me == Redirect(p, p.client)
    IN
    IF ~T.sess[p.id]
    THEN [T1 EXCEPT !.pend = (@ \ {me}) \cup
            {Pend("op", "settle", p.id, NoRec, NoClient, "user", p.n)}]
    ELSE LET r == NewRecSlot(T1)
             c == NewClientSlot(T1)
             T2 == [T1 EXCEPT !.cl[c] = NewClient,
                              !.heap[r] = RecoveredInstanceData(p.id, c, auth),
                              !.inst[p.id] = r]
             T3 == startClient(setupClientEvents(T2, p.id, c), p.id, c)
         IN [T3 EXCEPT !.pend = (@ \ {me}) \cup
                {Pend("op", "rinit", p.id, r, c, "user", p.n)}]

\* faulty variant: after a recovery that failed the operation is still retried
recoverInstanceDoneRetries(T, p, outcome) ==
    IF outcome = "resolved"
    THEN [T EXCEPT !.pend = (@ \ {p}) \cup
            {Pend("op", "settle", p.id, NoRec, NoClient, "user", p.n)}]
    ELSE [destroyClient(T, p.client) EXCEPT
                   !.inst[p.id] = NoRec,
                   !.pend = (@ \ {Redirect(p, p.client)}) \cup
                      {Pend("op", "settle", p.id, NoRec, NoClient, "user", p.n)}]

\* recoverInstance after client.initialize() settled, back in executeWithRecovery
recoverInstanceDone(T, p, outcome) ==
    IF outcome = "resolved"
    THEN [T EXCEPT !.pend = (@ \ {p}) \cup
            {Pend("op", "settle", p.id, NoRec, NoClient, "user", p.n)}]
    ELSE [destroyClient(T, p.client) EXCEPT
                   !.inst[p.id] = NoRec,
                   !.pend = @ \ {Redirect(p, p.client)},
                   !.out = OpOut(p.id, "RecoveryFailed", 1, 1)]

\* the 3 s settle pause is over: operation() is invoked again
executeRetry(T, p) == operation(T, p.id, p.n, 2, 1, T.pend \ {p})

\* the retried operation() settled: its outcome is what the caller gets
executeRetryDone(T, p, outcome) ==
    [T EXCEPT !.pend = @ \ {p}, !.out = OpOut(p.id, outcome, 2, 1)]

\* the callers that are inside executeWithRecovery
Callers == {p.n : p \in {q \in pending : q.kind = "op"}}

OpStart(id) ==
    \E n \in 1..MaxPending :
        /\ n \notin Callers
        /\ \A m \in 1..(n - 1) : m \in Callers
        /\ Apply(operation(St, id, n, 1, 0, pending))

OpFirstDone(p, outcome) ==
    /\ p.kind = "op" /\ p.pc = "first"
    /\ outcome \in CallOutcomes(p.client)
    /\ Apply(executeFirstDone(St, p, outcome))

OpRecover(p, auth) ==
    /\ p.kind = "op" /\ p.pc = "rdestroy"
    /\ sessions[p.id] => /\ FreeRecSlots(St) # {}
                          /\ FreeClientSlots(destroyClient(St, p.client)) # {}
    /\ Apply(recoverInstance(St, p, auth))

OpRecoverDone(p, outcome) ==
    /\ p.kind = "op" /\ p.pc = "rinit"
    /\ outcome \in InitOutcomes(p.client) \ {"timeout"}
    /\ Apply(recoverInstanceDone(St, p, outcome))

OpRetry(p) ==
    /\ p.kind = "op" /\ p.pc = "settle"
    /\ Apply(executeRetry(St, p))

OpRetryDone(p, outcome) ==
    /\ p.kind = "op" /\ p.pc = "retry"
    /\ outcome \in CallOutcomes(p.client)
    /\ Apply(executeRetryDone(St, p, outcome))

\* ------------------------------------------------ operations without the wrapper
\* sendMedia, checkNumber, getGroupInfo and getContactAbout call the client
\* directly; getMultipleContactProfiles checks the instance and then calls
\* getContactProfile for one contact after the other
DirectOps ==
    {"sendMedia", "checkNumber", "getGroupInfo", "getContactAbout",
     "getMultipleContactProfiles"}

\* faulty variant: the check of the status is missing
guardedCallSkipsReady(T, id, name, usable) ==
    LET r == T.inst[id] IN
    IF r = NoRec THEN [T EXCEPT !.out = Out(name, id, "NotFound")]
    ELSE IF name = "sendMedia" /\ ~usable
         THEN [T EXCEPT !.out = Out(name, id, "other")]
    ELSE IF name = "getMultipleContactProfiles" /\ ~usable
         THEN [T EXCEPT !.out = Out(name, id, "ok")]
    ELSE [T EXCEPT !.pend = @ \cup
            {Pend("call", "await", id, r, T.heap[r].client, name, 0)}]

\* an operation up to its first await on the client: the registry and readiness
\* checks come first. usable: the media file of sendMedia can be read, the
\* list of getMultipleContactProfiles is not empty
guardedCall(T, id, name, usable) ==
    LET r == T.inst[id] IN
    IF r = NoRec THEN [T EXCEPT !.out = Out(name, id, "NotFound")]
    ELSE IF T.heap[r].status # "ready"
         THEN [T EXCEPT !.out = Out(name, id, "NotReady")]
    ELSE IF name = "sendMedia" /\ ~usable
         THEN [T EXCEPT !.out = Out(name, id, "other")]
    ELSE IF name = "getMultipleContactProfiles" /\ ~usable
         THEN [T EXCEPT !.out = Out(name, id, "ok")]
    ELSE [T EXCEPT !.pend = @ \cup
            {Pend("call", "await", id, r, T.heap[r].client, name, 0)}]

\* the call on the client settled: its error is rethrown as it is, but
\* getMultipleContactProfiles collects the error of a contact and succeeds
callSettled(T, p, outcome) ==
    [T EXCEPT !.pend = @ \ {p},
              !.out = Out(p.origin, p.id,
                          IF p.origin = "getMultipleContactProfiles" THEN "ok"
                          ELSE outcome)]

DirectCall(id, name, usable) ==
    Apply(guardedCall(St, id, name, usable))

\* the contacts of getMultipleContactProfiles meet no session error here
DirectCallDone(p, outcome) ==
    /\ p.kind = "call"
    /\ outcome \in CallOutcomes(p.client)
    /\ p.origin = "getMultipleContactProfiles" => outcome # "transient"
    /\ Apply(callSettled(St, p, outcome))

\* ------------------------------------------------------------ destroyInstance
\* up to the await of client.destroy()
destroyInstanceStart(T, id) ==
    LET r == T.inst[id] IN
    IF r = NoRec THEN [T EXCEPT !.out = Out("destroyInstance", id, "NotFound")]
    ELSE [T EXCEPT !.pend = @ \cup
            {Pend("destroy", "await", id, r, T.heap[r].client, "user", 0)}]

\* after the await: a throw of client.destroy() leaves the method at once
destroyInstanceDone(T, p, ok) ==
    LET T1 == [destroyClient(T, p.client) EXCEPT !.pend = @ \ {Redirect(p, p.client)}] IN
    IF ok
    THEN [T1 EXCEPT !.inst[p.id] = NoRec, !.sess[p.id] = FALSE,
                    !.out = Out("destroyInstance", p.id, "destroyed")]
    ELSE [T1 EXCEPT !.out = Out("destroyInstance", p.id, "error")]

DestroyInstance(id) ==
    Apply(destroyInstanceStart(St, id))

DestroyInstanceDone(p, ok) ==
    /\ p.kind = "destroy"
    /\ Apply(destroyInstanceDone(St, p, ok))

\* ------------------------------------------------------------ startup recovery
\* the directories of the session store in the order readdirSync lists them
sessionDirs == <<"a", "b">>

\* recoverExistingSessions from sessionDirs[k] on: recoverInstance of the next
\* directory that exists, up to its await of client.initialize(); auth is the
\* verdict of hasValidSession on that directory
RECURSIVE recoverFrom(_, _, _)
recoverFrom(T, k, auth) ==
    IF k > Len(sessionDirs) THEN T
    ELSE LET id == sessionDirs[k] IN
         IF ~T.sess[id] THEN recoverFrom(T, k + 1, auth)
         ELSE LET r == NewRecSlot(T)
                  c == NewClientSlot(T)
                  T1 == [T EXCEPT !.cl[c] = NewClient,
                                  !.heap[r] = RecoveredInstanceData(id, c, auth),
                                  !.inst[id] = r]
                  T2 == startClient(setupClientEvents(T1, id, c), id, c)
              IN [T2 EXCEPT !.pend = @ \cup
                     {Pend("startup", "rinit", id, r, c, "startup", k)}]

\* faulty variant: a recovery that failed empties the registry
startupRecoveredClears(T, p, outcome, auth) ==
    IF outcome = "resolved"
    THEN recoverFrom([T EXCEPT !.pend = @ \ {p}], p.n + 1, auth)
    ELSE LET T1 == destroyClient(T, p.client)
             T2 == [T1 EXCEPT !.inst = [i \in AllIds |-> NoRec],
                              !.pend = @ \ {Redirect(p, p.client)}]
         IN recoverFrom(T2, p.n + 1, auth)

\* client.initialize() of a startup recovery settled: a failure removes the id
\* from the registry and is caught in the loop, which goes on to the next
\* directory
startupRecovered(T, p, outcome, auth) ==
    IF outcome = "resolved"
    THEN recoverFrom([T EXCEPT !.pend = @ \ {p}], p.n + 1, auth)
    ELSE LET T1 == destroyClient(T, p.client)
             T2 == [T1 EXCEPT !.inst[p.id] = NoRec,
                              !.pend = @ \ {Redirect(p, p.client)}]
         IN recoverFrom(T2, p.n + 1, auth)

StartupRecovered(p, outcome, auth) ==
    /\ p.kind = "startup"
    /\ outcome \in InitOutcomes(p.client) \ {"timeout"}
    /\ Apply(startupRecovered(St, p, outcome, auth))

\* --------------------------------------------------- health monitor: the loop
\* the keys of this.instances in the order of their insertion
mapOrder == <<"a", "b">>

\* faulty variant: the loop ends at the first instance it probes
healthLoopStops(T, k) ==
    IF k > 1 THEN T
    ELSE LET id == mapOrder[k]
             r == T.inst[id]
         IN IF r # NoRec /\ T.heap[r].status = "ready"
            THEN [T EXCEPT !.pend = @ \cup
                    {Pend("hm", "probe", id, r, T.heap[r].client, "hm", k)}]
            ELSE T

\* the for loop of the interval callback from entry k of the Map on, up to the
\* await of the next probe
RECURSIVE healthLoop(_, _)
healthLoop(T, k) ==
    IF k > Len(mapOrder) THEN T
    ELSE LET id == mapOrder[k]
             r == T.inst[id]
         IN IF r # NoRec /\ T.heap[r].status = "ready"
            THEN [T EXCEPT !.pend = @ \cup
                    {Pend("hm", "probe", id, r, T.heap[r].client, "hm", k)}]
            ELSE healthLoop(T, k + 1)

\* a probe of the loop settled: the verdict is applied and the loop goes on
healthLoopDone(T, p, healthy) ==
    healthLoop(healthProbeDone(T, p, healthy), p.n + 1)

\* the interval fires; a tick starts when the loop of the one before has ended
HealthTick ==
    /\ \A p \in pending : p.kind # "hm"
    /\ \E id \in AllIds : instances[id] # NoRec /\ heap[instances[id]].status = "ready"
    /\ Apply(healthLoop(St, 1))

HealthLoopDone(p, healthy) ==
    /\ p.kind = "hm" /\ p.n > 0
    /\ healthy \in ProbeOutcomes(p.client)
    /\ Apply(healthLoopDone(St, p, healthy))

\* ------------------------------------------------------------------- cleanup
\* shutdown() is under way or over: cleanup was called and the process has not
\* exited; the two periodic intervals are cleared from then on
ShuttingDown == \E p \in pending : p.kind = "cleanup"

\* shutdown() waiting for the callback of server.close()
Closing == Pend("cleanup", "closing", "none", NoRec, NoClient, "shutdown", 0)

\* this.instances.clear()
clearInstances(T) == [T EXCEPT !.inst = [i \in AllIds |-> NoRec]]

\* cleanup from the clearing of the two intervals to the await of the
\* client.destroy() of the registered instance (Ids holds one id, so the loop
\* has one pass at most); with an empty registry it runs to its end
cleanupStart(T) ==
    LET registered == {i \in Ids : T.inst[i] # NoRec} IN
    IF registered = {}
    THEN [clearInstances(T) EXCEPT !.pend = @ \cup {Closing},
                                    !.out = Out("cleanup", "none", "done")]
    ELSE LET id == CHOOSE i \in registered : TRUE
             r == T.inst[id]
             T1 == stopKeepAlive(T, id)
         IN [T1 EXCEPT !.pend = @ \cup
                {Pend("cleanup", "destroy", id, r, T.heap[r].client, "shutdown", 0)}]

\* cleanup after client.destroy() returned or threw (the error is logged)
cleanupDone(T, p) ==
    LET T1 == destroyClient(T, p.client) IN
    [clearInstances(T1) EXCEPT
        !.pend = (@ \ {Redirect(p, p.client)}) \cup {Closing},
        !.out = Out("cleanup", p.id, "done")]

\* this.profilePicCache.clear() ends a run of cleanup
ApplyCleared(T) ==
    /\ Bounded(T)
    /\ LET N == Normalize(T) IN
        /\ instances' = N.inst
        /\ heap' = N.heap
        /\ clients' = N.cl
        /\ pending' = N.pend
        /\ sessions' = N.sess
        /\ out' = N.out
        /\ profilePicCache' = [k \in CacheKeys |-> NoEntry]
        /\ UNCHANGED <<now, lookups, call, listing>>

Cleanup ==
    /\ ~ShuttingDown
    /\ IF \A i \in Ids : instances[i] = NoRec
       THEN ApplyCleared(cleanupStart(St))
       ELSE Apply(cleanupStart(St))

CleanupDone(p) ==
    /\ p.kind = "cleanup" /\ p.pc = "destroy"
    /\ ApplyCleared(cleanupDone(St, p))

\* -------------------------------------------------- profile enrichment pipeline
\* Array.prototype.slice(start, end)
slice(s, start, end) ==
    LET n == Len(s)
        from == IF start < 0 THEN (IF n + start < 0 THEN 0 ELSE n + start)
                ELSE (IF start > n THEN n ELSE start)
        to == IF end < 0 THEN (IF n + end < 0 THEN 0 ELSE n + end)
              ELSE (IF end > n THEN n ELSE end)
    IN IF from >= to THEN <<>> ELSE SubSeq(s, from + 1, to)

\* the state of the pipeline as one value
PicSt ==
    [call |-> call, cache |-> profilePicCache, lookups |-> lookups, out |-> NoOut,
     listing |-> listing]

ApplyPics(P) ==
    /\ call' = P.call
    /\ profilePicCache' = P.cache
    /\ lookups' = P.lookups
    /\ out' = P.out
    /\ listing' = P.listing
    /\ UNCHANGED <<instances, heap, clients, pending, sessions, now>>

\* instance && instance.status === 'ready', as getProfilePicWithCache reads it
instanceReady(id) == instances[id] # NoRec /\ heap[instances[id]].status = "ready"

\* faulty variant: an entry is still used at the instant it is 30 minutes old
cacheValidInclusive(cache, key, t) ==
    cache[key] # NoEntry /\ (t - cache[key].timestamp) <= cacheExpiry

\* cached && (Date.now() - cached.timestamp) < this.cacheExpiry
cacheValid(cache, key, t) ==
    cache[key] # NoEntry /\ (t - cache[key].timestamp) < cacheExpiry

\* getProfilePicWithCache up to its await of the race, for the item of a batch:
\* a valid entry or an instance that is not ready settles the item at once
getProfilePicWithCache(cache, ready, t, instanceId, contactId) ==
    LET key == cacheKey(instanceId, contactId) IN
    IF cacheValid(cache, key, t)
    THEN [contactId |-> contactId, st |-> "cached", url |-> cache[key].url]
    ELSE IF ~ready
         THEN [contactId |-> contactId, st |-> "notready", url |-> Null]
         ELSE [contactId |-> contactId, st |-> "racing", url |-> Null]

\* what settles the race of an item: the lookup resolves with a url or with no
\* picture, the lookup throws, or the timer of the item fires first
RaceOutcomes == Urls \cup {Null, "throw", "timeout"}

\* faulty variant: a lookup that failed or timed out leaves the cache as it is
raceSettledForgets(cache, t, instanceId, contactId, outcome) ==
    IF outcome \in {"throw", "timeout"}
    THEN [cache |-> cache, url |-> Null]
    ELSE [cache |-> [cache EXCEPT ![cacheKey(instanceId, contactId)] =
                        [url |-> outcome, timestamp |-> t]],
          url |-> outcome]

\* getProfilePicWithCache after the race settled: the cache write and the value
\* it returns
raceSettled(cache, t, instanceId, contactId, outcome) ==
    LET url == IF outcome \in {"throw", "timeout"} THEN Null ELSE outcome IN
    [cache |-> [cache EXCEPT ![cacheKey(instanceId, contactId)] =
                   [url |-> url, timestamp |-> t]],
     url |-> url]

\* faulty variant: an item without a picture gets no entry in the map
RECURSIVE setAllSkipsNull(_, _)
setAllSkipsNull(map, items) ==
    IF items = <<>> THEN map
    ELSE setAllSkipsNull(IF Head(items).url = Null THEN map
                         ELSE [map EXCEPT ![Head(items).contactId] = Head(items).url],
                         Tail(items))

\* batchResults.forEach(...): profilePicMap.set(contactId, profilePicUrl), in order
RECURSIVE setAll(_, _)
setAll(map, items) ==
    IF items = <<>> THEN map
    ELSE setAll([map EXCEPT ![Head(items).contactId] = Head(items).url], Tail(items))

Racing(items) == {k \in DOMAIN items : items[k].st = "racing"}

\* getChats: the batch size it hands to getMultipleProfilePics for n ids
batchSizeFor(n) == IF n <= 10 THEN 3 ELSE IF n <= 20 THEN 4 ELSE 5

\* the iterations of `for (let i = 0; i < n; i += batchSize)` from i on
RECURSIVE iterations(_, _, _)
iterations(i, n, batchSize) ==
    IF i < n THEN 1 + iterations(i + batchSize, n, batchSize) ELSE 0

\* Math.floor(i / batchSize) + 1
batchNumber(i, batchSize) == (i \div batchSize) + 1

\* Math.ceil(n / d) and Math.floor(n / d) for n >= 0 and d # 0
ceil(n, d) == IF d > 0 THEN (n + d - 1) \div d ELSE 0 - (n \div (0 - d))
floor(n, d) == IF d > 0 THEN n \div d ELSE 0 - ((n - d - 1) \div (0 - d))

\* ------------------------------------------------------------------ getChats
\* the chats of the groups (their ids end in @g.us)
isGroup(id) == id = "z"

\* chat.timestamp || 0
orZero(timestamp) == IF timestamp = NoTimestamp THEN 0 ELSE timestamp

\* the comparator of allChats.sort: (b.timestamp || 0) - (a.timestamp || 0)
compare(a, b) == orZero(b.timestamp) - orZero(a.timestamp)

\* Array.prototype.sort is stable: x goes behind every chat the comparator does
\* not put behind it
RECURSIVE insert(_, _)
insert(sorted, x) ==
    IF sorted = <<>> THEN <<x>>
    ELSE IF compare(Head(sorted), x) > 0 THEN <<x>> \o sorted
         ELSE <<Head(sorted)>> \o insert(Tail(sorted), x)

RECURSIVE sort(_)
sort(chats) ==
    IF chats = <<>> THEN <<>>
    ELSE insert(sort(SubSeq(chats, 1, Len(chats) - 1)), chats[Len(chats)])

\* the route: Math.min(parseInt(req.query.limit) || 50, 200); a query that is
\* absent or no number reads like 0
routeLimit(q) == LET n == IF q = 0 THEN 50 ELSE q IN IF n < 200 THEN n ELSE 200

\* the route: Math.max(parseInt(req.query.offset) || 0, 0)
routeOffset(q) == IF q > 0 THEN q ELSE 0

\* chatData of a chat of the page, before the pictures are filled in
chatData(chat) == [id |-> chat.id, timestamp |-> chat.timestamp, profilePicUrl |-> Null]

\* getChats from the sort to the split of the page into contacts and groups
paginate(allChats, limit, offset) ==
    LET paginated == slice(sort(allChats), offset, offset + limit)
        IsGroup(c) == isGroup(c.id)
        IsContact(c) == ~isGroup(c.id)
        data == [k \in DOMAIN paginated |-> chatData(paginated[k])]
    IN [contacts |-> SelectSeq(data, IsContact), groups |-> SelectSeq(data, IsGroup)]

\* nextOffset of a page that has no next page (null)
NoOffset == -1

\* the pagination object of the result
pagination(totalChats, limit, offset, returnedCount) ==
    LET hasMore == (offset + limit) < totalChats IN
    [limit |-> limit, offset |-> offset, hasMore |-> hasMore,
     nextOffset |-> IF hasMore THEN offset + limit ELSE NoOffset,
     currentPage |-> floor(offset, limit) + 1,
     totalPages |-> ceil(totalChats, limit),
     returnedCount |-> returnedCount]

\* profilePicMap.get(chat.id) || null
orNull(v) == IF v = Unset THEN Null ELSE v

\* getChats from the return of getMultipleProfilePics (or from the split, when
\* no pictures are fetched) to its own return; asked is what the call was for
getChatsReturn(P, map) ==
    LET L == P.listing
        fill(seq) == [k \in DOMAIN seq |-> [seq[k] EXCEPT !.profilePicUrl = orNull(map[seq[k].id])]]
    IN [P EXCEPT !.listing = NoListing,
                 !.out = Out("getChats", L.id,
                    [asked |-> [allChats |-> L.allChats, limit |-> L.limit,
                                offset |-> L.offset],
                     contacts |-> fill(L.contacts), groups |-> fill(L.groups),
                     totalChats |-> Len(L.allChats),
                     pagination |-> pagination(Len(L.allChats), L.limit, L.offset,
                                               Len(L.contacts) + Len(L.groups))])]

\* Promise.allSettled(batchPromises) resolved
batchSettled(P, ready, t) ==
    LET C == P.call
        map == setAll(C.map, C.items)
    IN IF C.i + C.batchSize < Len(C.ids)
       THEN [P EXCEPT !.call.map = map, !.call.pc = "pause"]
       ELSE IF P.listing.pc = "enriching"
            THEN getChatsReturn([P EXCEPT !.call = Idle], map)
            ELSE [P EXCEPT !.call = Idle,
                           !.out = Out("getMultipleProfilePics", C.id,
                                       [ids |-> C.ids, map |-> map])]

\* the loop of getMultipleProfilePics from the top of an iteration to its next
\* await: the batch is cut, every item runs up to its race; when no item is left
\* racing the results go into the map and either the pause before the next batch
\* starts or the map is returned
runBatch(P, ready, t) ==
    LET C == P.call
        batch == slice(C.ids, C.i, C.i + C.batchSize)
        items == [k \in DOMAIN batch |->
                    getProfilePicWithCache(P.cache, ready, t, C.id, batch[k])]
        asked == {[pos |-> C.i + k, contactId |-> batch[k], abandoned |-> FALSE] :
                    k \in Racing(items)}
        P1 == [P EXCEPT !.call.items = items, !.call.pc = "batch",
                        !.lookups = @ \cup asked]
    IN IF Racing(items) = {} THEN batchSettled(P1, ready, t) ELSE P1

\* getMultipleProfilePics(instanceId, contactIds, batchSize) up to its first await
getMultipleProfilePics(P, instanceId, contactIds, batchSize, ready, t) ==
    LET P1 == [P EXCEPT !.call = [Idle EXCEPT !.id = instanceId, !.ids = contactIds,
                                             !.batchSize = batchSize]]
    IN IF Len(contactIds) = 0
       THEN [P EXCEPT !.out = Out("getMultipleProfilePics", instanceId, [ids |-> contactIds, map |-> EmptyMap])]
       ELSE runBatch(P1, ready, t)

\* the race of item k settled
itemSettled(P, k, outcome, ready, t) ==
    LET C == P.call
        it == C.items[k]
        l == [pos |-> C.i + k, contactId |-> it.contactId, abandoned |-> FALSE]
        S == raceSettled(P.cache, t, C.id, it.contactId, outcome)
        P1 == [P EXCEPT !.cache = S.cache,
                        !.call.items[k] = [it EXCEPT !.st = "settled", !.url = S.url],
                        !.lookups = IF outcome = "timeout"
                                    THEN (@ \ {l}) \cup {[l EXCEPT !.abandoned = TRUE]}
                                    ELSE @ \ {l}]
    IN IF Racing(P1.call.items) = {} THEN batchSettled(P1, ready, t) ELSE P1

\* the 500 ms pause between two batches is over: i += batchSize, next iteration
pauseOver(P, ready, t) ==
    runBatch([P EXCEPT !.call.i = @ + P.call.batchSize], ready, t)

\* faulty variant: a batch that timed out leaves its ids out of the map
batchTimeoutSkips(P, ready, t) ==
    LET C == P.call
        P1 == [P EXCEPT !.call.i = @ + C.batchSize]
    IN IF P1.call.i < Len(C.ids) THEN runBatch(P1, ready, t)
       ELSE [P EXCEPT !.call = Idle, !.out = Out("getMultipleProfilePics", C.id, [ids |-> C.ids, map |-> C.map])]

\* the timer of the batch (twice the delay of the timers of its items, and armed
\* after them) fires: every id of the batch is set to null, no pause follows
batchTimeout(P, ready, t) ==
    LET C == P.call
        batch == slice(C.ids, C.i, C.i + C.batchSize)
        map == [c \in ContactIds |->
                  IF \E k \in DOMAIN batch : batch[k] = c THEN Null ELSE C.map[c]]
        P1 == [P EXCEPT !.call.map = map, !.call.i = @ + C.batchSize]
    IN IF P1.call.i < Len(C.ids) THEN runBatch(P1, ready, t)
       ELSE [P EXCEPT !.call = Idle, !.out = Out("getMultipleProfilePics", C.id, [ids |-> C.ids, map |-> map])]

\* the lists of ids a listing hands over: no id twice
IdLists ==
    {s \in UNION {[1..n -> ContactIds] : n \in 0..MaxIds} :
        \A j, k \in DOMAIN s : j # k => s[j] # s[k]}

BatchSizes == 1..MaxBatchSize

\* the route and getChats up to the await of client.getChats(): an id that is
\* not registered and an instance that is not ready are refused
getChats(P, id, includeProfilePics, limit, offset, registered, ready) ==
    IF ~registered THEN [P EXCEPT !.out = Out("getChats", id, [error |-> "NotFound"])]
    ELSE IF ~ready THEN [P EXCEPT !.out = Out("getChats", id, [error |-> "NotReady"])]
    ELSE [P EXCEPT !.listing = [NoListing EXCEPT !.pc = "listing", !.id = id,
                                   !.includeProfilePics = includeProfilePics,
                                   !.limit = limit, !.offset = offset]]

\* client.getChats() resolved with allChats: the page is cut, and the pictures
\* of its chats are fetched when they were asked for and the page is not empty
chatsListed(P, allChats, ready, t) ==
    LET L == P.listing
        page == paginate(allChats, L.limit, L.offset)
        all == page.contacts \o page.groups
        allChatIds == [k \in DOMAIN all |-> all[k].id]
        P1 == [P EXCEPT !.listing.pc = "enriching", !.listing.allChats = allChats,
                        !.listing.contacts = page.contacts,
                        !.listing.groups = page.groups]
    IN IF L.includeProfilePics /\ Len(allChatIds) > 0
       THEN getMultipleProfilePics(P1, L.id, allChatIds, batchSizeFor(Len(allChatIds)),
                                   ready, t)
       ELSE getChatsReturn(P1, EmptyMap)

\* the timestamps of the chats the client lists
Timestamps == {NoTimestamp, 0, 1}

\* the chat lists of the client: no chat twice
ChatLists ==
    UNION {{[k \in DOMAIN ids |-> [id |-> ids[k], timestamp |-> ts[k]]] :
              ts \in [DOMAIN ids -> Timestamps]} : ids \in IdLists}

\* the limit and offset queries of a request
QueryLimits == {-1, 0, 1, 2}
QueryOffsets == {-1, 0, 1, 2}

GetChats(id, includeProfilePics, qLimit, qOffset) ==
    /\ listing.pc = "idle"
    /\ call.pc = "idle"
    /\ lookups = {}
    /\ ApplyPics(getChats(PicSt, id, includeProfilePics, routeLimit(qLimit),
                          routeOffset(qOffset), instances[id] # NoRec, instanceReady(id)))

ChatsListed(allChats) ==
    /\ listing.pc = "listing"
    /\ ApplyPics(chatsListed(PicSt, allChats, instanceReady(listing.id), now))

\* no lookup of an earlier call is still with the client when a call starts
GetMultipleProfilePics(id, ids, batchSize) ==
    /\ call.pc = "idle"
    /\ listing.pc = "idle"
    /\ lookups = {}
    /\ ApplyPics(getMultipleProfilePics(PicSt, id, ids, batchSize, instanceReady(id), now))

ItemSettled(k, outcome) ==
    /\ call.pc = "batch"
    /\ k \in Racing(call.items)
    /\ ApplyPics(itemSettled(PicSt, k, outcome, instanceReady(call.id), now))

PauseOver ==
    /\ call.pc = "pause"
    /\ ApplyPics(pauseOver(PicSt, instanceReady(call.id), now))

\* a lookup whose item timed out completes at the client: nobody awaits it
LateCompletion(l) ==
    /\ l.abandoned
    /\ ApplyPics([PicSt EXCEPT !.lookups = @ \ {l}])

\* the timer of the batch wins the race against Promise.allSettled while items
\* of the batch are still racing
BatchTimeout ==
    /\ call.pc = "batch"
    /\ Racing(call.items) # {}
    /\ ApplyPics(batchTimeout(PicSt, instanceReady(call.id), now))

\* the lookups of items whose batch was given up: their races are still open
Orphans ==
    {l \in lookups :
        /\ ~l.abandoned
        /\ ~(call.pc = "batch" /\ (l.pos - call.i) \in Racing(call.items))}

\* the race of an item of a batch that timed out settles, for the instance id
\* it was asked of: getProfilePicWithCache writes the cache, the value it
\* returns reaches a Promise.allSettled that nobody awaits
orphanSettled(P, id, l, outcome, t) ==
    [P EXCEPT !.cache = raceSettled(P.cache, t, id, l.contactId, outcome).cache,
              !.lookups = IF outcome = "timeout"
                          THEN (@ \ {l}) \cup {[l EXCEPT !.abandoned = TRUE]}
                          ELSE @ \ {l}]

OrphanSettled(id, l, outcome) ==
    /\ l \in Orphans
    /\ instances[id] # NoRec
    /\ ApplyPics(orphanSettled(PicSt, id, l, outcome, now))

\* time passes
Tick(t) ==
    /\ t > now
    /\ now' = t
    /\ out' = NoOut
    /\ UNCHANGED <<instances, heap, clients, pending, sessions, profilePicCache,
                   lookups, call, listing>>

Outcomes == {"ok", "transient", "other", "resolved", "rejected", "timeout"}

\* the step injects no failure / injects one of at most b failures
Calm == UNCHANGED faults
Fault(b) == faults < b /\ faults' = faults + 1

\* the client event handlers, the health monitor, the keep-alive loop and the
\* auto-reconnector, on instances made by createInstance
Next ==
    \/ \E id \in Ids : CreateInstance(id) /\ Calm
    \/ \E id \in Ids : InitializeInstance(id) /\ Calm
    \/ \E c \in ClientIds, ev \in Events : ClientEvent(c, ev) /\ Calm
    \/ \E p \in pending : QrGenerated(p) /\ Calm
    \/ \E id \in Ids : HealthExamine(id) /\ Calm
    \/ \E p \in pending, healthy \in BOOLEAN : HealthProbeDone(p, healthy) /\ Calm
    \/ \E r \in RecIds : KeepAliveTick(r) /\ Calm
    \/ \E p \in pending, ok \in BOOLEAN : KeepAliveProbeDone(p, ok) /\ Calm
    \/ \E p \in pending : KeepAliveRecheckStart(p) /\ Calm
    \/ \E p \in pending, healthy \in BOOLEAN : KeepAliveRecheckDone(p, healthy) /\ Calm
    \/ \E p \in pending : ProbeTimer(p) /\ Calm
    \/ \E id \in Ids : SweepExamine(id) /\ Calm
    \/ \E id \in Ids : ManualReconnect(id) /\ Calm
    \/ \E p \in pending : AttemptRebuild(p) /\ Calm
    \/ \E p \in pending, o \in Outcomes : AttemptDone(p, o) /\ Calm
    \/ \E p \in pending : RetryTimer(p) /\ Calm

Spec == Init /\ [][Next]_vars

\* the operation recovery wrapper on instances made by createInstance; the
\* clients emit only ready, and the environment lets at most b calls on a
\* client fail
WrapperSteps(b) ==
    \/ \E id \in Ids : CreateInstance(id) /\ Calm
    \/ \E id \in Ids : InitializeInstance(id) /\ Calm
    \/ \E c \in ClientIds : ClientEvent(c, "ready") /\ Calm
    \/ \E id \in Ids : OpStart(id) /\ Calm
    \/ \E p \in pending : OpFirstDone(p, "ok") /\ Calm
    \/ \E p \in pending, o \in {"transient", "other"} : OpFirstDone(p, o) /\ Fault(b)
    \/ \E p \in pending, auth \in BOOLEAN : OpRecover(p, auth) /\ Calm
    \/ \E p \in pending : OpRecoverDone(p, "resolved") /\ Calm
    \/ \E p \in pending : OpRecoverDone(p, "rejected") /\ Fault(b)
    \/ \E p \in pending : OpRetry(p) /\ Calm
    \/ \E p \in pending : OpRetryDone(p, "ok") /\ Calm
    \/ \E p \in pending, o \in {"transient", "other"} : OpRetryDone(p, o) /\ Fault(b)

NextOps == WrapperSteps(MaxFaults)

SpecOps == Init /\ [][NextOps]_vars

\* the wrapper next to the health monitor and the auto-reconnector
NextMix ==
    \/ WrapperSteps(MixFaults)
    \/ \E id \in Ids : HealthExamine(id) /\ Calm
    \/ \E p \in pending : HealthProbeDone(p, TRUE) /\ Calm
    \/ \E p \in pending : HealthProbeDone(p, FALSE) /\ Fault(MixFaults)
    \/ \E p \in pending : ProbeTimer(p) /\ Calm
    \/ \E p \in pending : AttemptRebuild(p) /\ Calm
    \/ \E p \in pending : AttemptDone(p, "resolved") /\ Calm
    \/ \E p \in pending, o \in {"rejected", "timeout"} : AttemptDone(p, o) /\ Fault(MixFaults)
    \/ \E p \in pending : RetryTimer(p) /\ Calm

SpecMix == Init /\ [][NextMix]_vars

\* a probe of a running client fails at most MaxFaults times, a probe of a
\* torn-down client always fails
ProbeFault(p) ==
    IF clientSt(p.client) = "alive" THEN Fault(MaxFaults) ELSE Calm

\* the monitors and the auto-reconnector in an environment where every
\* reinitialize succeeds and a started client emits ready
NextLive ==
    \/ \E id \in Ids : CreateInstance(id) /\ Calm
    \/ \E id \in Ids : InitializeInstance(id) /\ Calm
    \/ \E c \in ClientIds : ClientReadyOnce(c) /\ Calm
    \/ \E id \in Ids : HealthExamine(id) /\ Calm
    \/ \E p \in pending : HealthProbeDone(p, TRUE) /\ Calm
    \/ \E p \in pending : HealthProbeDone(p, FALSE) /\ ProbeFault(p)
    \/ \E r \in RecIds : KeepAliveTick(r) /\ Calm
    \/ \E p \in pending : KeepAliveProbeDone(p, TRUE) /\ Calm
    \/ \E p \in pending : KeepAliveProbeDone(p, FALSE) /\ ProbeFault(p)
    \/ \E p \in pending : KeepAliveRecheckStart(p) /\ Calm
    \/ \E p \in pending : KeepAliveRecheckDone(p, TRUE) /\ Calm
    \/ \E p \in pending : KeepAliveRecheckDone(p, FALSE) /\ ProbeFault(p)
    \/ \E p \in pending : ProbeTimer(p) /\ Calm
    \/ \E id \in Ids : SweepExamine(id) /\ Calm
    \/ \E p \in pending : AttemptRebuild(p) /\ Calm
    \/ \E p \in pending : AttemptDone(p, "resolved") /\ Calm

\* timers fire, the sweep runs, awaited promises settle, and the started client
\* reports ready
Fairness ==
    /\ WF_vars((\E p \in pending : ProbeTimer(p)) /\ Calm)
    /\ WF_vars((\E p \in pending : AttemptRebuild(p)) /\ Calm)
    /\ WF_vars((\E p \in pending : AttemptDone(p, "resolved")) /\ Calm)
    /\ WF_vars((\E c \in ClientIds : ClientReadyOnce(c)) /\ Calm)
    /\ WF_vars((\E id \in Ids : SweepExamine(id)) /\ Calm)

SpecLive == Init /\ [][NextLive]_vars /\ Fairness

\* the profile enrichment pipeline on an instance that becomes ready and
\* disconnects
NextPics ==
    \/ \E id \in Ids : CreateInstance(id) /\ Calm
    \/ \E id \in Ids : InitializeInstance(id) /\ Calm
    \/ \E c \in ClientIds : ClientEvent(c, "ready") /\ Calm
    \/ \E c \in ClientIds : ClientEvent(c, "disconnected") /\ Calm
    \/ \E id \in Ids, ids \in IdLists, b \in BatchSizes :
          GetMultipleProfilePics(id, ids, b) /\ Calm
    \/ \E k \in 1..MaxBatchSize, o \in RaceOutcomes : ItemSettled(k, o) /\ Calm
    \/ PauseOver /\ Calm
    \/ \E l \in lookups : LateCompletion(l) /\ Calm
    \/ \E t \in Times : Tick(t) /\ Calm

SpecPics == Init /\ [][NextPics]_vars

\* the health monitor and the auto-reconnector in an environment where every
\* reinitialize fails (its client start rejects or runs into the 120 s timer);
\* the clients emit at most MaxFaults events
NextFail ==
    \/ \E id \in Ids : CreateInstance(id) /\ Calm
    \/ \E id \in Ids : InitializeInstance(id) /\ Calm
    \/ \E c \in ClientIds, ev \in {"ready", "disconnected", "auth_failure"} :
          ClientEvent(c, ev) /\ Fault(MaxFaults)
    \/ \E id \in Ids : HealthExamine(id) /\ Calm
    \/ \E p \in pending : HealthProbeDone(p, FALSE) /\ Calm
    \/ \E p \in pending : ProbeTimer(p) /\ Calm
    \/ \E id \in Ids : SweepExamine(id) /\ Calm
    \/ \E p \in pending : AttemptRebuild(p) /\ Calm
    \/ \E p \in pending, o \in {"rejected", "timeout"} : AttemptDone(p, o) /\ Calm
    \/ \E p \in pending : RetryTimer(p) /\ Calm

\* timers fire, the sweep runs and awaited promises settle
FairnessFail ==
    /\ WF_vars((\E p \in pending : HealthProbeDone(p, FALSE)) /\ Calm)
    /\ WF_vars((\E p \in pending : ProbeTimer(p)) /\ Calm)
    /\ WF_vars((\E id \in Ids : SweepExamine(id)) /\ Calm)
    /\ WF_vars((\E p \in pending : AttemptRebuild(p)) /\ Calm)
    /\ WF_vars((\E p \in pending, o \in {"rejected", "timeout"} : AttemptDone(p, o)) /\ Calm)
    /\ WF_vars((\E p \in pending : RetryTimer(p)) /\ Calm)

SpecFail == Init /\ [][NextFail]_vars /\ FairnessFail

\* the health monitor and the auto-reconnector where a reinitialize may succeed
\* or fail
NextFlag ==
    \/ NextFail
    \/ \E p \in pending : AttemptDone(p, "resolved") /\ Calm

\* what the code itself schedules: the one-shot timers fire, the sweep runs, the
\* race of initialize() against the 120 s timer is decided, and the 500 ms pause
\* of a rebuild that has no running client to tear down is over; nothing bounds
\* the await of destroy() on a running client
FairnessFlag ==
    /\ WF_vars((\E p \in pending : clientSt(p.client) # "alive" /\ AttemptRebuild(p)) /\ Calm)
    /\ WF_vars((\E p \in pending : ProbeTimer(p)) /\ Calm)
    /\ WF_vars((\E id \in Ids : SweepExamine(id)) /\ Calm)
    /\ WF_vars((\E p \in pending, o \in Outcomes : AttemptDone(p, o)) /\ Calm)
    /\ WF_vars((\E p \in pending : RetryTimer(p)) /\ Calm)

SpecFlag == Init /\ [][NextFlag]_vars /\ FairnessFlag

\* the client.destroy() an attempt awaits settles
DestroySettles == WF_vars((\E p \in pending : AttemptRebuild(p)) /\ Calm)

\* the enrichment pipeline in an environment that lets the timer of a batch fire
\* before the races of its items are settled
NextBatch ==
    \/ \E id \in Ids : CreateInstance(id) /\ Calm
    \/ \E id \in Ids : InitializeInstance(id) /\ Calm
    \/ \E c \in ClientIds : ClientEvent(c, "ready") /\ Calm
    \/ \E id \in Ids, ids \in IdLists, b \in BatchSizes :
          GetMultipleProfilePics(id, ids, b) /\ Calm
    \/ \E k \in 1..MaxBatchSize, o \in RaceOutcomes : ItemSettled(k, o) /\ Calm
    \/ PauseOver /\ Calm
    \/ BatchTimeout /\ Calm
    \/ \E id \in Ids, l \in lookups, o \in RaceOutcomes : OrphanSettled(id, l, o) /\ Calm
    \/ \E l \in lookups : LateCompletion(l) /\ Calm

SpecBatch == Init /\ [][NextBatch]_vars

\* the chat listing with its enrichment on an instance that becomes ready; every
\* lookup answers with a url or runs into the timeout of its item
NextChats ==
    \/ \E id \in Ids : CreateInstance(id) /\ Calm
    \/ \E id \in Ids : InitializeInstance(id) /\ Calm
    \/ \E c \in ClientIds : ClientEvent(c, "ready") /\ Calm
    \/ \E id \in Ids, inc \in BOOLEAN, l \in QueryLimits, o \in QueryOffsets :
          GetChats(id, inc, l, o) /\ Calm
    \/ \E allChats \in ChatLists : ChatsListed(allChats) /\ Calm
    \/ \E k \in 1..MaxIds, o \in Urls \cup {"timeout"} : ItemSettled(k, o) /\ Calm
    \/ \E l \in lookups : LateCompletion(l) /\ Calm

SpecChats == Init /\ [][NextChats]_vars

\* the user-facing operations, with and without the wrapper
NextUser ==
    \/ WrapperSteps(MaxFaults)
    \/ \E c \in ClientIds : ClientEvent(c, "disconnected") /\ Calm
    \/ \E id \in Ids, name \in DirectOps, usable \in BOOLEAN :
          DirectCall(id, name, usable) /\ Calm
    \/ \E p \in pending : DirectCallDone(p, "ok") /\ Calm
    \/ \E p \in pending, o \in {"transient", "other"} :
          DirectCallDone(p, o) /\ Fault(MaxFaults)

SpecUser == Init /\ [][NextUser]_vars

\* destroyInstance among the client events of instances made by createInstance;
\* the environment lets at most MaxFaults teardowns fail
NextDestroy ==
    \/ \E id \in Ids : CreateInstance(id) /\ Calm
    \/ \E id \in Ids : InitializeInstance(id) /\ Calm
    \/ \E c \in ClientIds, ev \in Events : ClientEvent(c, ev) /\ Calm
    \/ \E p \in pending : QrGenerated(p) /\ Calm
    \/ \E id \in Ids : DestroyInstance(id) /\ Calm
    \/ \E p \in pending : DestroyInstanceDone(p, TRUE) /\ Calm
    \/ \E p \in pending : DestroyInstanceDone(p, FALSE) /\ Fault(MaxFaults)

SpecDestroy == Init /\ [][NextDestroy]_vars

\* shutdown among the monitors, the keep-alive loop and the auto-reconnector:
\* once cleanup has been called no request arrives and the two cleared
\* intervals start no callback; what is suspended or armed goes on
NextShutdown ==
    \/ \E id \in Ids : ~ShuttingDown /\ CreateInstance(id) /\ Calm
    \/ \E id \in Ids : ~ShuttingDown /\ InitializeInstance(id) /\ Calm
    \/ \E c \in ClientIds, ev \in {"ready", "disconnected"} : ClientEvent(c, ev) /\ Calm
    \/ \E id \in Ids : ~ShuttingDown /\ HealthExamine(id) /\ Calm
    \/ \E p \in pending, healthy \in BOOLEAN : HealthProbeDone(p, healthy) /\ Calm
    \/ \E r \in RecIds : KeepAliveTick(r) /\ Calm
    \/ \E p \in pending, ok \in BOOLEAN : KeepAliveProbeDone(p, ok) /\ Calm
    \/ \E p \in pending : KeepAliveRecheckStart(p) /\ Calm
    \/ \E p \in pending, healthy \in BOOLEAN : KeepAliveRecheckDone(p, healthy) /\ Calm
    \/ \E p \in pending : ProbeTimer(p) /\ Calm
    \/ \E id \in Ids : ~ShuttingDown /\ SweepExamine(id) /\ Calm
    \/ \E p \in pending : AttemptRebuild(p) /\ Calm
    \/ \E p \in pending, o \in Outcomes : AttemptDone(p, o) /\ Calm
    \/ \E p \in pending : RetryTimer(p) /\ Calm
    \/ \E id \in Ids : ~ShuttingDown /\ GetMultipleProfilePics(id, <<"x">>, 1) /\ Calm
    \/ ItemSettled(1, "u") /\ Calm
    \/ Cleanup /\ Calm
    \/ \E p \in pending : CleanupDone(p) /\ Calm

SpecShutdown == Init /\ [][NextShutdown]_vars

\* the state after the construction of a manager that finds session
\* directories: the first recoverInstance waits for its client
Started(dirs, auth) ==
    recoverFrom([inst |-> [i \in AllIds |-> NoRec],
                 heap |-> [r \in RecIds |-> FreeRec],
                 cl |-> [c \in ClientIds |-> FreeClient],
                 pend |-> {},
                 sess |-> [i \in AllIds |-> i \in dirs],
                 out |-> NoOut], 1, auth)

InitPair ==
    /\ listing = NoListing
    /\ profilePicCache = [k \in CacheKeys |-> NoEntry]
    /\ now = 0
    /\ lookups = {}
    /\ call = Idle
    /\ out = NoOut
    /\ faults = 0
    /\ \E dirs \in SUBSET AllIds, auth \in BOOLEAN :
          LET T == Started(dirs, auth) IN
          /\ instances = T.inst
          /\ heap = T.heap
          /\ clients = T.cl
          /\ pending = T.pend
          /\ sessions = T.sess

\* two instances recovered at startup under the monitors, the keep-alive loop
\* and the auto-reconnector; the environment lets at most MaxFaults probes of
\* running clients and client starts fail
NextPair ==
    \/ \E p \in pending, auth \in BOOLEAN : StartupRecovered(p, "resolved", auth) /\ Calm
    \/ \E p \in pending, auth \in BOOLEAN :
          StartupRecovered(p, "rejected", auth) /\ Fault(MaxFaults)
    \/ \E c \in ClientIds, ev \in {"ready", "disconnected"} : ClientEvent(c, ev) /\ Calm
    \/ HealthTick /\ Calm
    \/ \E p \in pending : HealthLoopDone(p, TRUE) /\ Calm
    \/ \E p \in pending : HealthLoopDone(p, FALSE) /\ ProbeFault(p)
    \/ \E r \in RecIds : KeepAliveTick(r) /\ Calm
    \/ \E p \in pending : KeepAliveProbeDone(p, TRUE) /\ Calm
    \/ \E p \in pending : KeepAliveProbeDone(p, FALSE) /\ ProbeFault(p)
    \/ \E p \in pending : KeepAliveRecheckStart(p) /\ Calm
    \/ \E p \in pending : KeepAliveRecheckDone(p, TRUE) /\ Calm
    \/ \E p \in pending : KeepAliveRecheckDone(p, FALSE) /\ ProbeFault(p)
    \/ \E p \in pending : ProbeTimer(p) /\ Calm
    \/ \E id \in AllIds : SweepExamine(id) /\ Calm
    \/ \E p \in pending : AttemptRebuild(p) /\ Calm
    \/ \E p \in pending : AttemptDone(p, "resolved") /\ Calm
    \/ \E p \in pending, o \in {"rejected", "timeout"} :
          AttemptDone(p, o) /\ Fault(MaxFaults)
    \/ \E p \in pending : RetryTimer(p) /\ Calm

SpecPair == InitPair /\ [][NextPair]_vars

\* ===================================================================== claims
\* the suspended reconnection attempts (attemptAutoReconnection awaiting
\* reinitializeInstance) that step from pending to pending' starts
StartedAttempts == {p \in pending' \ pending : p.kind = "attempt" /\ p.pc = "destroy"}

\* C1: createInstance(id) with an id that is in the registry answers
\* AlreadyExists and changes neither the registry nor any record, client or
\* suspended call; with a fresh id it registers exactly one new record, in status
\* initializing, and leaves the other records alone.
C1_CreateInstance ==
    [][\A id \in Ids :
        (out'.tag = "createInstance" /\ out'.id = id) =>
            IF instances[id] # NoRec
            THEN /\ out'.res = "AlreadyExists"
                 /\ instances' = instances
                 /\ heap' = heap
                 /\ clients' = clients
                 /\ pending' = pending
            ELSE /\ out'.res = "initializing"
                 /\ instances'[id] # NoRec
                 /\ heap[instances'[id]].id = "none"
                 /\ heap'[instances'[id]].id = id
                 /\ heap'[instances'[id]].status = "initializing"
                 /\ Cardinality({r \in RecIds : heap'[r] # heap[r]}) = 1
    ]_vars

\* a second createInstance("a") was refused while the first instance is ready
C1_Witness ==
    /\ out.tag = "createInstance" /\ out.res = "AlreadyExists"
    /\ instances["a"] # NoRec
    /\ heap[instances["a"]].status = "ready"

\* C5: a reconnection attempt whose increment takes reconnectAttempts above
\* maxReconnectAttempts sets the status to failed, clears reconnecting, emits the
\* status-changed notification and starts no reinitialize.
C5_GiveUp ==
    [][\A r \in RecIds :
        (/\ heap[r].id # "none"
         /\ heap'[r].reconnectAttempts = heap[r].reconnectAttempts + 1
         /\ heap'[r].reconnectAttempts > maxReconnectAttempts) =>
            /\ heap'[r].status = "failed"
            /\ ~heap'[r].reconnecting
            /\ out' = Out("emit", heap[r].id, "status_changed_failed")
            /\ StartedAttempts = {}
            /\ clients' = clients
    ]_vars

\* the ninth attempt in a row has just given up
C5_Witness ==
    /\ out = Out("emit", "a", "status_changed_failed")
    /\ instances["a"] # NoRec
    /\ heap[instances["a"]].status = "failed"
    /\ heap[instances["a"]].reconnectAttempts = maxReconnectAttempts + 1
    /\ ~heap[instances["a"]].reconnecting

\* C7: the sweep starts a reconnection attempt only for a registered instance
\* that is disconnected, has hasValidAuth and is not reconnecting when examined.
C7_SweepGate ==
    [][\A p \in StartedAttempts :
        p.origin = "sweep" =>
            /\ instances[p.id] = p.rec
            /\ heap[p.rec].status = "disconnected"
            /\ heap[p.rec].hasValidAuth
            /\ ~heap[p.rec].reconnecting
    ]_vars

\* an attempt started by the sweep is rebuilding the client
C7_Witness ==
    \E p \in pending : p.kind = "attempt" /\ p.origin = "sweep" /\ p.pc = "init"

\* C4: reconnectAttempts of an instance never decreases except by the reset to 0
\* of a reconnection attempt that succeeded, and is not incremented once the
\* status is failed.
C4_ResetOnlyOnSuccess ==
    [][\A r \in RecIds :
        (/\ heap[r].id # "none"
         /\ heap'[r].id = heap[r].id
         /\ heap'[r].reconnectAttempts < heap[r].reconnectAttempts) =>
            /\ heap'[r].reconnectAttempts = 0
            /\ \E p \in pending \ pending' :
                  p.kind = "attempt" /\ p.pc = "init" /\ p.rec = r
    ]_vars

C4_NoIncrementOnceFailed ==
    [][\A r \in RecIds :
        (heap[r].status = "failed" /\ heap'[r].id = heap[r].id) =>
            heap'[r].reconnectAttempts <= heap[r].reconnectAttempts
    ]_vars

C6_FailedIsTerminal ==
    [][\A r \in RecIds :
        (heap[r].status = "failed" /\ heap'[r].id = heap[r].id) =>
            /\ heap'[r].status = "failed"
            /\ \A p \in StartedAttempts : p.rec # r
    ]_vars

\* C8: no attempt started by the sweep, by a timer of the health monitor or of
\* the keep-alive loop, or by the retry timer starts a rebuild for an instance
\* whose hasValidAuth is false.
C8_AuthGate ==
    [][\A p \in StartedAttempts :
        p.origin \in {"sweep", "hm", "ka", "retry"} => heap[p.rec].hasValidAuth
    ]_vars

\* a suspended call that is rebuilding the client of its instance: the old client
\* is being destroyed, or the new one is being started
Rebuilding(p) ==
    \/ p.kind = "attempt"
    \/ p.kind = "op" /\ p.pc \in {"rdestroy", "rinit"}

\* C3: at no time are two rebuilds of the same id's client in progress, whether
\* started by the auto-reconnector or by the recovery of a wrapped operation.
C3_OneRebuild ==
    \A id \in Ids : Cardinality({p \in pending : p.id = id /\ Rebuilding(p)}) <= 1

\* C10: a wrapped operation whose first invocation threw a session error is
\* recovered once and invoked once more, and the caller gets the outcome of
\* that second invocation.
C10_AlwaysRetried ==
    (out.tag = "operation" /\ out.recov = 1) =>
        out.calls = 2 /\ out.res # "RecoveryFailed"

\* C10 as the code has it: the operation is invoked at most twice and recovered
\* at most once; a session error of the first invocation never reaches the
\* caller; after a recovery that succeeded the operation is invoked once more and
\* the caller gets that outcome; after a recovery that failed the caller gets
\* RecoveryFailed and the operation is not invoked again.
C10_RetryAfterRecovery ==
    out.tag = "operation" =>
        /\ out.calls \in {1, 2}
        /\ out.recov \in {0, 1}
        /\ out.recov = 0 => out.calls = 1 /\ out.res # "transient"
        /\ out.recov = 1 =>
              IF out.res = "RecoveryFailed" THEN out.calls = 1 ELSE out.calls = 2

\* a call returned the result of its second invocation, made after a recovery
C10_Witness == out = OpOut("a", "ok", 2, 1)

\* the reconnection attempts of an id that are under way
InFlightAttempts(id) == {p \in pending : p.kind = "attempt" /\ p.id = id}

\* C2: for every id at most one attemptAutoReconnection is in flight at any time.
C2_OneAttemptPerId ==
    \A id \in Ids : Cardinality(InFlightAttempts(id)) <= 1

\* a liveness probe of the ready instance failed: the instance is disconnected,
\* still has hasValidAuth, and the 1 s timer of the monitor is armed
ProbeFailed(id) ==
    /\ instances[id] # NoRec
    /\ heap[instances[id]].status = "disconnected"
    /\ heap[instances[id]].hasValidAuth
    /\ \E p \in pending : p.kind = "timer" /\ p.origin \in {"hm", "ka"} /\ p.id = id

Reconnected(id) ==
    /\ instances[id] # NoRec
    /\ heap[instances[id]].status = "ready"
    /\ heap[instances[id]].reconnectAttempts = 0
    /\ ~heap[instances[id]].reconnecting

\* C9: where every reinitialize succeeds and the rebuilt client emits ready, a
\* failed probe of a ready instance makes it disconnected, and the instance is
\* eventually ready again with reconnectAttempts 0 and reconnecting false; no
\* attempt has to be repeated (the counter never exceeds 1).
C9_BackToReady ==
    /\ [][\A p \in pending' \ pending :
            (p.kind = "timer" /\ p.origin \in {"hm", "ka"}) =>
                heap'[instances[p.id]].status = "disconnected"]_vars
    /\ \A id \in Ids : ProbeFailed(id) ~> Reconnected(id)
    /\ [](\A r \in RecIds : heap[r].reconnectAttempts <= 1)

\* the instance is ready again after a probe failed and one attempt rebuilt its client
C9_Witness ==
    /\ Reconnected("a")
    /\ faults > 0
    /\ heap[instances["a"]].client # NoClient
    /\ clients[heap[instances["a"]].client].st = "alive"
\* the record the registry holds for an id, and the client of that record
Registered(id) == IF instances[id] = NoRec THEN FreeRec ELSE heap[instances[id]]
RegisteredClient(id) ==
    IF Registered(id).client = NoClient THEN FreeClient ELSE clients[Registered(id).client]

\* C11: a wrapped operation that fails with an error that is no session error
\* (NotFound and NotReady included) returns that error after a single
\* invocation, with no recovery, and the registry, the instance records, the
\* clients and the session store are as before.
C11_OtherErrorsPropagate ==
    [][(out'.tag = "operation" /\ out'.recov = 0) =>
          /\ out'.calls = 1
          /\ out'.res \in {"ok", "other", "NotFound", "NotReady"}
          /\ out'.res # "ok" =>
                /\ instances' = instances
                /\ sessions' = sessions
                /\ \A id \in Ids : /\ Registered(id)' = Registered(id)
                                   /\ RegisteredClient(id)' = RegisteredClient(id)
                /\ \A q \in pending' : q.kind = "op" => q \in pending
                /\ out'.res = "NotFound" =>
                      pending' = pending /\ instances[out'.id] = NoRec
                /\ out'.res = "NotReady" =>
                      pending' = pending /\ Registered(out'.id).status # "ready"
    ]_vars

\* a wrapped operation threw an error that is no session error while another
\* call was suspended
C11_Witness ==
    /\ out = OpOut("a", "other", 1, 0)
    /\ instances["a"] # NoRec
    /\ pending # {}

\* the wrapped calls that are waiting for the client.initialize() of their recovery
Recovering == {p \in pending : p.kind = "op" /\ p.pc = "rinit"}

\* C12: when the recovery of a wrapped operation fails (recoverInstance throws
\* and removes the id from the registry, or the id is gone when the recovery
\* starts), the caller gets RecoveryFailed and the operation is not invoked again.
C12_RecoveryFailed ==
    [][/\ \A p \in Recovering :
            (/\ p.n \notin {q.n : q \in Recovering'}
             /\ instances[p.id] = p.rec
             /\ instances'[p.id] = NoRec) =>
                /\ out' = OpOut(p.id, "RecoveryFailed", 1, 1)
                /\ p.n \notin Callers'
       /\ \A p \in pending :
            (/\ p.kind = "op" /\ p.pc = "first"
             /\ p.n \notin Callers'
             /\ out'.tag = "operation" /\ out'.recov = 1) =>
                out' = OpOut(p.id, "RecoveryFailed", 1, 1) /\ instances[p.id] = NoRec
       /\ (out'.tag = "operation" /\ out'.res = "RecoveryFailed") =>
            out'.calls = 1 /\ out'.recov = 1 /\ Cardinality(Callers') < Cardinality(Callers)
    ]_vars

\* a recovery failed and its caller got RecoveryFailed
C12_Witness ==
    /\ out = OpOut("a", "RecoveryFailed", 1, 1)
    /\ instances["a"] = NoRec

\* the wrapped calls that are inside the recovery at position pc
InRecovery(pc) == {p \in pending : p.kind = "op" /\ p.pc = pc}

\* C13: the recovery of a wrapped operation rebuilds the client as reinitialize
\* does: whether it succeeds or fails, the id stays bound to the same instance
\* record, whose reconnectAttempts and reconnecting are left as they were, and
\* the rebuild leaves the record with status initializing and no QR.
C13_RecoveryInPlace ==
    [][\A pc \in {"rdestroy", "rinit"} : \A p \in InRecovery(pc) :
          (p.n \notin {q.n : q \in InRecovery(pc)'} /\ instances[p.id] # NoRec) =>
              /\ instances'[p.id] = instances[p.id]
              /\ Registered(p.id)'.reconnectAttempts = Registered(p.id).reconnectAttempts
              /\ Registered(p.id)'.reconnecting = Registered(p.id).reconnecting
              /\ pc = "rdestroy" =>
                    Registered(p.id)'.status = "initializing" /\ ~Registered(p.id)'.qr
    ]_vars

\* the step runs getMultipleProfilePics from the top of an iteration: the call
\* starts or the pause before a batch is over
BatchStarts ==
    /\ call.pc \in {"idle", "pause"}
    /\ call' # call \/ out'.tag = "getMultipleProfilePics"

\* the ids getProfilePicWithCache is called for in such a step
StartedBatch ==
    IF call.pc = "pause"
    THEN LET b == slice(call.ids, call.i + call.batchSize, call.i + 2 * call.batchSize)
         IN {b[k] : k \in DOMAIN b}
    ELSE IF call'.pc = "idle" THEN {c \in ContactIds : out'.res.map[c] # Unset}
    ELSE {call'.items[k].contactId : k \in DOMAIN call'.items}

\* the step hands a lookup for c to the client
Asked(c) == \E l \in lookups' \ lookups : l.contactId = c

\* what getProfilePicWithCache returned for c in a step in which it did not suspend
Returned(c) ==
    IF call'.pc = "idle" THEN out'.res.map[c]
    ELSE call'.items[CHOOSE k \in DOMAIN call'.items : call'.items[k].contactId = c].url

\* the lookup for c in this step returned the value of the cache entry e, without
\* invoking the client
ServedFrom(e, c) == ~Asked(c) /\ Returned(c) = e.url

\* C14: a lookup made less than 30 minutes after the write of its key returns the
\* cached url or null without invoking the client; a lookup made 30 minutes or
\* more after the write does not use the entry and asks the client again.
C14_CacheWindow ==
    [][BatchStarts =>
          \A c \in StartedBatch :
              LET e == profilePicCache[cacheKey("a", c)] IN
              e # NoEntry =>
                  IF now - e.timestamp < cacheExpiry THEN ServedFrom(e, c) ELSE Asked(c)
    ]_vars

\* C14 as the code has it: an entry that is 30 minutes old or older is not used;
\* the client is asked again when the instance is registered and ready, and
\* otherwise the lookup returns null without invoking the client and without
\* writing the cache. No lookup writes the cache before its race settles.
C14_CacheOrRefetch ==
    [][BatchStarts =>
          /\ profilePicCache' = profilePicCache
          /\ \A c \in StartedBatch :
                LET e == profilePicCache[cacheKey("a", c)] IN
                IF e # NoEntry /\ now - e.timestamp < cacheExpiry THEN ServedFrom(e, c)
                ELSE IF instanceReady("a") THEN Asked(c)
                ELSE ~Asked(c) /\ Returned(c) = Null
    ]_vars

\* in one batch an entry written a millisecond ago was served from the cache and
\* an entry that is exactly 30 minutes old is being looked up again
C14_Witness ==
    /\ call.pc = "batch"
    /\ now = cacheExpiry
    /\ \E j, k \in DOMAIN call.items :
          /\ call.items[j].st = "cached"
          /\ profilePicCache[cacheKey("a", call.items[j].contactId)].timestamp = cacheExpiry - 1
          /\ call.items[j].url = "u"
          /\ call.items[k].st = "racing"
          /\ profilePicCache[cacheKey("a", call.items[k].contactId)].timestamp = 0

\* the lookups whose item lost the race against its timer in this step
TimedOut == {l \in lookups : ~l.abandoned /\ [l EXCEPT !.abandoned = TRUE] \in lookups'}

\* the abandoned lookups that complete at the client in this step
CompletedLate == {l \in lookups : l.abandoned /\ l \notin lookups'}

\* the value the call holds for the item of lookup l after the step
ResultFor(l) ==
    IF call'.pc = "idle" THEN out'.res.map[l.contactId]
    ELSE IF call'.pc = "pause" THEN call'.map[l.contactId]
    ELSE call'.items[l.pos - call.i].url

\* C15: a lookup that loses the race against the timer of its item, or that
\* throws, makes getProfilePicWithCache return null and write null into the cache
\* with the time of the write, as a url is written; when the abandoned lookup
\* completes later, neither the cache nor any value of the call changes.
C15_NullCachedLateDiscarded ==
    [][/\ \A l \in TimedOut :
            /\ profilePicCache'[cacheKey("a", l.contactId)] =
                   [url |-> Null, timestamp |-> now]
            /\ ResultFor(l) = Null
       /\ \A c \in ContactIds : \A o \in RaceOutcomes :
            LET S == raceSettled(profilePicCache, now, "a", c, o)
                url == IF o \in {"throw", "timeout"} THEN Null ELSE o
            IN /\ S.url = url
               /\ S.cache = [profilePicCache EXCEPT ![cacheKey("a", c)] =
                                 [url |-> url, timestamp |-> now]]
       /\ CompletedLate # {} =>
            /\ profilePicCache' = profilePicCache
            /\ call' = call
            /\ out'.tag # "getMultipleProfilePics"
    ]_vars

\* the item of x timed out: null is cached and held for x while the lookup is
\* still with the client, and the call has gone on to its pause
C15_Witness ==
    /\ call.pc = "pause"
    /\ call.map["x"] = Null
    /\ profilePicCache[cacheKey("a", "x")] = [url |-> Null, timestamp |-> cacheExpiry - 1]
    /\ \E l \in lookups : l.abandoned /\ l.contactId = "x"

\* the ids that have an entry in a map
Keys(map) == {c \in ContactIds : map[c] # Unset}

\* a returned map covers the requested ids and no other
Complete(res) ==
    /\ Keys(res.map) = {res.ids[k] : k \in DOMAIN res.ids}
    /\ Cardinality(Keys(res.map)) = Len(res.ids)
    /\ \A c \in Keys(res.map) : res.map[c] \in Urls \cup {Null}

\* C16: the map getMultipleProfilePics returns for a list of N ids has exactly N
\* entries, one for every requested id and for no other, each a url or null,
\* also when the catch branch of a batch (its timeout) filled in the ids.
C16_MapComplete ==
    /\ out.tag = "getMultipleProfilePics" => Complete(out.res)
    /\ call.pc = "batch" =>
          LET P == batchTimeout(PicSt, instanceReady("a"), now)
              b == slice(call.ids, call.i, call.i + call.batchSize)
          IN IF P.out.tag = "getMultipleProfilePics" THEN Complete(P.out.res)
             ELSE \A k \in DOMAIN b : P.call.map[b[k]] \in Urls \cup {Null}

\* a call for three ids in two batches returned a url for one id and null for
\* the two others, one of them from a lookup that is still with the client
C16_Witness ==
    /\ out.tag = "getMultipleProfilePics"
    /\ out.res.ids = <<"x", "y", "z">>
    /\ out.res.map = [c \in ContactIds |-> IF c = "y" THEN "u" ELSE Null]
    /\ \E l \in lookups : l.abandoned /\ l.contactId = "z"

\* most ids a listing hands to the pipeline in the checks of the batch plan
MaxListed == 30

\* C17, the batches: the ids are cut into consecutive groups of batchSize that
\* are processed one after another, N ids in ceil(N / batchSize) batches with
\* batchSize 3 up to 10 ids, 4 up to 20 and 5 above, and a batch other than the
\* first starts only when the pause after the batch before it is over.
C17_Batches ==
    [][/\ \A n \in 1..MaxListed :
            /\ batchSizeFor(n) = (IF n <= 10 THEN 3 ELSE IF n <= 20 THEN 4 ELSE 5)
            /\ iterations(0, n, batchSizeFor(n)) = ceil(n, batchSizeFor(n))
       /\ iterations(0, 25, 5) = 5
       /\ call'.pc # "idle" =>
            /\ call'.i % call'.batchSize = 0
            /\ call'.i < Len(call'.ids)
            /\ \A k \in DOMAIN call'.items :
                  call'.items[k].contactId = call'.ids[call'.i + k]
            /\ Len(call'.items) =
                  (IF call'.i + call'.batchSize <= Len(call'.ids) THEN call'.batchSize
                   ELSE Len(call'.ids) - call'.i)
       /\ (call.pc # "idle" /\ call'.pc # "idle" /\ call'.i # call.i) =>
            /\ call.pc = "pause"
            /\ call'.i = call.i + call.batchSize
            /\ call'.ids = call.ids /\ call'.batchSize = call.batchSize
       /\ (call.pc = "idle" /\ call'.pc # "idle") => call'.i = 0
       /\ (call.pc # "idle" /\ call'.pc = "idle") =>
            /\ out'.tag = "getMultipleProfilePics"
            /\ batchNumber(IF call.pc = "pause" THEN call.i + call.batchSize ELSE call.i,
                           call.batchSize) = ceil(Len(call.ids), call.batchSize)
    ]_vars

\* C17, the cap: the client is never working on more lookups of one call than
\* the batch size of that call.
C17_InFlightCap ==
    [][call'.pc # "idle" => Cardinality(lookups') <= call'.batchSize]_vars

\* C17: the batches of a call run one after another, separated by pauses, and at
\* most batchSize lookups of the call are with the client at any time.
C17_BatchesAndCap == C17_Batches /\ C17_InFlightCap

\* the rank of the chat at position k of a list in descending timestamp order
\* (missing timestamp read as 0, earlier position first among equals), from 0
Rank(chats, k) ==
    Cardinality({j \in DOMAIN chats :
        \/ orZero(chats[j].timestamp) > orZero(chats[k].timestamp)
        \/ orZero(chats[j].timestamp) = orZero(chats[k].timestamp) /\ j < k})

\* the ids of a sequence of chats
IdsOf(seq) == {seq[k].id : k \in DOMAIN seq}

\* a sequence of chats of a list is in the order of their ranks
Ranked(chats, seq) ==
    \A j, k \in DOMAIN seq : j < k =>
        \E a, b \in DOMAIN chats :
            /\ chats[a].id = seq[j].id /\ chats[b].id = seq[k].id
            /\ Rank(chats, a) < Rank(chats, b)

\* a result of getChats is the page [offset, offset + limit) of the ranking
PageOf(res) ==
    LET chats == res.asked.allChats
        T == Len(chats)
        L == res.asked.limit
        O == res.asked.offset
        page == {k \in DOMAIN chats : O <= Rank(chats, k) /\ Rank(chats, k) < O + L}
    IN /\ IdsOf(res.contacts) \cup IdsOf(res.groups) = {chats[k].id : k \in page}
       /\ Len(res.contacts) + Len(res.groups) = Cardinality(page)
       /\ \A k \in DOMAIN res.contacts : ~isGroup(res.contacts[k].id)
       /\ \A k \in DOMAIN res.groups : isGroup(res.groups[k].id)
       /\ Ranked(chats, res.contacts) /\ Ranked(chats, res.groups)
       /\ res.totalChats = T
       /\ res.pagination.hasMore = ((O + L) < T)
       /\ IF L > 0
          THEN /\ res.pagination.totalPages * L >= T
               /\ (res.pagination.totalPages - 1) * L < T
          ELSE res.pagination.totalPages = ceil(T, L)

\* the pictures are fetched for the chats of the page and for no other
EnrichesPage ==
    listing'.pc = "enriching" =>
        /\ call'.pc # "idle"
        /\ {call'.ids[k] : k \in DOMAIN call'.ids} =
              IdsOf(listing'.contacts) \cup IdsOf(listing'.groups)
        /\ \A l \in lookups' \ lookups :
              l.contactId \in IdsOf(listing'.contacts) \cup IdsOf(listing'.groups)

\* C18: getChats with limit L and offset O over T chats returns the chats ranked
\* [O, O+L) in descending timestamp order (missing timestamp read as 0), with
\* hasMore = (O+L) < T and totalPages = ceil(T/L), and fetches pictures only for
\* the chats of that page.
C18_Page ==
    [][/\ (out'.tag = "getChats" /\ "asked" \in DOMAIN out'.res) => PageOf(out'.res)
       /\ EnrichesPage
    ]_vars

\* C18 for the requests whose limit is at least 1
C18_PagePositiveLimit ==
    [][/\ (/\ out'.tag = "getChats"
            /\ "asked" \in DOMAIN out'.res
            /\ out'.res.asked.limit >= 1) => PageOf(out'.res)
       /\ EnrichesPage
    ]_vars

\* the step ends with all of the lifecycle state as it was and no call started
NothingDone ==
    /\ pending' = pending
    /\ instances' = instances /\ heap' = heap /\ clients' = clients
    /\ sessions' = sessions

\* the step is a call of the operation name, not the return of an earlier one
DirectStarts(name) ==
    /\ \A p \in pending \ pending' : ~(p.kind = "call" /\ p.origin = name)
    /\ \/ out'.tag = name
       \/ \E p \in pending' \ pending : p.kind = "call" /\ p.origin = name

\* the step is a call of one of the four wrapped operations
WrappedStarts ==
    /\ \A p \in pending \ pending' : ~(p.kind = "op" /\ p.pc = "first")
    /\ \/ out'.tag = "operation" /\ out'.calls = 1 /\ out'.recov = 0
       \/ \E p \in pending' \ pending : p.kind = "op" /\ p.pc = "first"

\* what the checks at the head of an operation make of a call for id
Guarded(id) ==
    IF instances[id] = NoRec THEN out'.res = "NotFound" /\ NothingDone
    ELSE IF Registered(id).status # "ready" THEN out'.res = "NotReady" /\ NothingDone
    ELSE out'.res \notin {"NotFound", "NotReady"}

\* C19: every user-facing operation fails with NotFound when the id is not in
\* the registry and with NotReady when the status of the instance is not ready
\* at the time of the call, and in both cases invokes no client operation.
C19_Guards ==
    [][/\ \A name \in DirectOps : DirectStarts(name) => Guarded("a")
       /\ WrappedStarts => Guarded("a")
    ]_vars

\* checkNumber was refused on an instance that was ready before and has
\* disconnected, while an earlier call is still waiting for the client
C19_Witness ==
    /\ out = Out("checkNumber", "a", "NotReady")
    /\ instances["a"] # NoRec
    /\ Registered("a").status = "disconnected"
    /\ \E p \in pending : p.kind = "call"

\* the step in which a destroyInstance on an existing id returns or throws
DestroyEnds ==
    /\ out'.tag = "destroyInstance"
    /\ out'.res # "NotFound"

\* destroyInstance on an unknown id fails with NotFound and changes nothing
C20_UnknownId ==
    [][out'.tag = "destroyInstance" /\ out'.res = "NotFound"
         => instances[out'.id] = NoRec /\ NothingDone]_vars

\* C20: destroyInstance(id) on an existing id always ends with the id absent
\* from the registry, its session directory deleted and a destroyed
\* notification emitted, even when tearing down the client throws; on an
\* unknown id it fails with NotFound and changes nothing.
C20_DestroyAlwaysCompletes ==
    [][/\ DestroyEnds =>
            /\ instances'[out'.id] = NoRec
            /\ ~sessions'[out'.id]
            /\ out'.res = "destroyed"
       /\ out'.tag = "destroyInstance" /\ out'.res = "NotFound"
            => instances[out'.id] = NoRec /\ NothingDone
    ]_vars

\* what the code does keep: a teardown that does not throw ends so
C20_CompletesUnlessThrown ==
    [][DestroyEnds /\ out'.res # "error" =>
            /\ instances'[out'.id] = NoRec
            /\ ~sessions'[out'.id]
            /\ out'.res = "destroyed"]_vars

\* a destroyInstance whose teardown threw has returned, the id still registered
C20_Thrown ==
    /\ out = Out("destroyInstance", "a", "error")
    /\ instances["a"] # NoRec

\* C21: in every reachable state, under every interleaving of the client events
\* with their asynchronous handlers, an instance whose status is ready has its
\* QR payload cleared and hasValidAuth = TRUE.
C21_ReadyIsClean ==
    \A id \in Ids :
        instances[id] # NoRec /\ Registered(id).status = "ready" =>
            ~Registered(id).qr /\ Registered(id).hasValidAuth

\* the part the code keeps: a ready instance has hasValidAuth = TRUE
C21_ReadyHasAuth ==
    \A id \in Ids :
        instances[id] # NoRec /\ Registered(id).status = "ready" =>
            Registered(id).hasValidAuth

\* the records whose listeners can run: those a running client closed over
Listening == {clients[c].rec : c \in {d \in ClientIds : clients[d].st = "alive"}} \ {NoRec}

\* C22: after a client auth_failure event has been fully handled, the status of
\* the instance is auth_failed and hasValidAuth is FALSE.
C22_AuthFailed ==
    \A r \in Listening :
        LET h == onEvent(St, r, "auth_failure").heap[r] IN
        h.status = "auth_failed" /\ ~h.hasValidAuth

\* what the two listeners leave: the status auth_failure, hasValidAuth FALSE
C22_AuthFailureStatus ==
    \A r \in Listening :
        LET h == onEvent(St, r, "auth_failure").heap[r] IN
        h.status = "auth_failure" /\ ~h.hasValidAuth /\ ~h.skipQR

\* an instance is left in the status auth_failure
C22_Reached ==
    instances["a"] # NoRec /\ Registered("a").status = "auth_failure"

\* the step runs the qr listener of record r up to its await
QrHandled(r) == \E p \in pending' \ pending : p.kind = "qrgen" /\ p.rec = r

\* the instance of record r is believed authenticated
BelievedAuthenticated(r) == heap[r].hasValidAuth /\ heap[r].skipQR

\* C23: when a qr event fires for an instance believed authenticated
\* (hasValidAuth and skipQR), the session is treated as invalid: hasValidAuth
\* and skipQR are set to FALSE and the instance proceeds as a fresh pairing with
\* status qr_required.
C23_DemotedQrRequired ==
    [][\A r \in RecIds : QrHandled(r) /\ BelievedAuthenticated(r) =>
          /\ ~heap'[r].hasValidAuth /\ ~heap'[r].skipQR
          /\ heap'[r].status = "qr_required"]_vars

\* C23 as the code has it: the flags are cleared, and the status the listener
\* leaves is qr_ready, that of every other qr event
C23_DemotedQrReady ==
    [][\A r \in RecIds : QrHandled(r) /\ BelievedAuthenticated(r) =>
          /\ ~heap'[r].hasValidAuth /\ ~heap'[r].skipQR
          /\ heap'[r].status = "qr_ready"]_vars

\* an instance that had become ready is back in a pairing, its flags cleared,
\* while the qr listener waits for the QR image
C23_Witness ==
    \E p \in pending :
        /\ p.kind = "qrgen"
        /\ heap[p.rec].keepAlive
        /\ heap[p.rec].status = "qr_ready"
        /\ ~heap[p.rec].hasValidAuth /\ ~heap[p.rec].skipQR

\* C24: after a client disconnected event has been fully handled, the status of
\* the instance is disconnected, reconnectAttempts is 0 and its keep-alive
\* timer is stopped.
C24_Disconnected ==
    \A r \in Listening :
        LET h == onEvent(St, r, "disconnected").heap[r] IN
        /\ h.status = "disconnected"
        /\ h.reconnectAttempts = 0
        /\ ~h.keepAlive

\* what the listeners keep: the status and the counter of the record they closed
\* over, and the timer of that record when it is the one in the registry
C24_DisconnectedRegistered ==
    \A r \in Listening :
        LET h == onEvent(St, r, "disconnected").heap[r] IN
        /\ h.status = "disconnected"
        /\ h.reconnectAttempts = 0
        /\ instances[heap[r].id] = r => ~h.keepAlive

\* a suspended call or armed timer of the step that was not there before
\* (a call whose client was torn down in the step is the same call)
Fresh(p) ==
    /\ p \in pending'
    /\ \A q \in pending : [q EXCEPT !.client = NoClient] # [p EXCEPT !.client = NoClient]

\* the step probes a client or starts or carries on a reconnection attempt
ProbesOrRebuilds == \E p \in pending' : Fresh(p) /\ p.kind \in {"hm", "ka", "attempt"}

\* cleanup returns in the step
CleanupEnds == out'.tag = "cleanup"

\* on completion the registry and the cache are empty
C25_EmptyOnCompletion ==
    [][CleanupEnds =>
          /\ \A i \in Ids : instances'[i] = NoRec
          /\ \A k \in CacheKeys : profilePicCache'[k] = NoEntry]_vars

\* C25: shutdown is ordered so that from the moment cleanup starts no timer
\* callback (pending one-shot reconnection and retry timers and reconnection
\* attempts in flight included) probes or rebuilds an instance that is being
\* or has been destroyed, and on completion the registry and the cache are
\* empty.
C25_OrderedShutdown ==
    [][/\ ShuttingDown => ~ProbesOrRebuilds
       /\ CleanupEnds =>
             /\ \A i \in Ids : instances'[i] = NoRec
             /\ \A k \in CacheKeys : profilePicCache'[k] = NoEntry
    ]_vars

\* cleanup has returned and a client runs that a reconnection attempt built
C25_ClientOutlivesCleanup ==
    /\ Closing \in pending
    /\ \A i \in Ids : instances[i] = NoRec
    /\ \E c \in ClientIds : clients[c].st = "alive"

\* a suspended call or armed timer of the state that the step ends or moves on
Settled(p) ==
    /\ p \in pending
    /\ \A q \in pending' : [q EXCEPT !.client = NoClient] # [p EXCEPT !.client = NoClient]

\* the instance of id is registered and ready once the step is over
ReadyAfter(id) == instances'[id] # NoRec /\ heap'[instances'[id]].status = "ready"

\* the 1 s timer the health monitor arms for id
HmTimer(id) == Pend("timer", "armed", id, NoRec, NoClient, "hm", 0)

\* the probe p, settled in the step, did not find its client connected
ProbeUnhealthy(p) == faults' # faults \/ clientSt(p.client) # "alive"

\* the entries of the Map after entry k that the loop has to probe
ToProbe(k) == {j \in (k + 1)..Len(mapOrder) : ReadyAfter(mapOrder[j])}

\* C26: on each tick of the health monitor only instances with status ready
\* are probed; a failed or timed-out probe sets the status of that instance to
\* disconnected and schedules one reconnection attempt, a successful probe
\* changes nothing else, and no probe failure leaves the loop or keeps the
\* remaining instances from being processed.
C26_HealthLoop ==
    [][/\ \A p \in pending' : Fresh(p) /\ p.kind = "hm" =>
             /\ instances[p.id] = p.rec
             /\ heap[p.rec].status = "ready"
       /\ \A p \in pending : Settled(p) /\ p.kind = "hm" =>
             /\ out'.tag = "none"
             /\ instances'[p.id] = p.rec =>
                   IF ProbeUnhealthy(p)
                   THEN /\ heap'[p.rec] = [heap[p.rec] EXCEPT !.status = "disconnected"]
                        /\ HmTimer(p.id) \in pending'
                   ELSE /\ heap'[p.rec] = heap[p.rec]
                        /\ HmTimer(p.id) \in pending' => HmTimer(p.id) \in pending
             /\ ToProbe(p.n) # {} =>
                   \E q \in pending' :
                       /\ q.kind = "hm" /\ q.id = mapOrder[q.n]
                       /\ q.n \in ToProbe(p.n)
                       /\ \A j \in ToProbe(p.n) : q.n <= j
    ]_vars

\* the probe of a failed, a is disconnected with its reconnection timer armed,
\* and the loop is probing b
C26_Witness ==
    /\ instances["a"] # NoRec /\ Registered("a").status = "disconnected"
    /\ HmTimer("a") \in pending
    /\ \E q \in pending : q.kind = "hm" /\ q.id = "b" /\ q.n = 2

\* the step handles a background failure for instance a: a health or
\* keep-alive probe that did not find the client connected, a reconnection
\* attempt or a startup recovery whose client start failed
FailureOf(a) ==
    \E p \in pending :
        /\ Settled(p) /\ p.id = a
        /\ \/ p.kind \in {"hm", "ka"} /\ ProbeUnhealthy(p)
           \/ p.kind = "attempt" /\ p.pc = "init" /\ faults' # faults
           \/ p.kind = "startup" /\ faults' # faults

\* the registry entry of b and every field of its record are as before
Untouched(b) ==
    /\ instances'[b] = instances[b]
    /\ heap'[instances[b]] = heap[instances[b]]

\* C27: a background failure for instance a (failed health probe, failed
\* keep-alive, failed reconnection attempt, failed startup recovery) leaves
\* every field of every other instance b and the registry entry of b unchanged.
C27_FailureIsolated ==
    [][\A a \in AllIds, b \in AllIds :
          FailureOf(a) /\ b # a /\ instances[b] # NoRec => Untouched(b)]_vars

\* a reconnection attempt for a has failed and armed its retry timer while b
\* is registered and ready
C27_Witness ==
    /\ \E p \in pending : p.kind = "timer" /\ p.origin = "retry" /\ p.id = "a"
    /\ instances["a"] # NoRec /\ Registered("a").status = "disconnected"
    /\ instances["b"] # NoRec /\ Registered("b").status = "ready"

\* the startup recovery of b has failed while a is registered
C27_StartupFailed ==
    /\ instances["a"] # NoRec
    /\ instances["b"] = NoRec /\ sessions["b"]
    /\ \A p \in pending : p.kind # "startup"
    /\ faults > 0

\* the 1 s timer the keep-alive re-check arms for id
KaTimer(id) == Pend("timer", "armed", id, NoRec, NoClient, "ka", 0)

\* the record p works on is as before and no reconnection has been scheduled
KaQuiet(p) ==
    /\ heap'[p.rec] = heap[p.rec]
    /\ KaTimer(p.id) \in pending' => KaTimer(p.id) \in pending

\* the verdict of a re-check that failed or succeeded: disconnected and a
\* reconnection scheduled exactly when it failed on a status that is ready
KaVerdict(p, failed) ==
    IF failed /\ heap[p.rec].status = "ready"
    THEN /\ heap'[p.rec] = [heap[p.rec] EXCEPT !.status = "disconnected"]
         /\ KaTimer(p.id) \in pending'
    ELSE KaQuiet(p)

\* C28: when a keep-alive probe fails, a health re-check runs shortly after;
\* the instance is moved to disconnected and a reconnection attempt is
\* scheduled if and only if that re-check also fails and the status of the
\* instance is still ready at that moment; a successful keep-alive probe
\* changes nothing else.
C28_KeepAliveRecheck ==
    [][\A p \in pending : Settled(p) /\ p.kind = "ka" /\ heap'[p.rec].id # "none" =>
          CASE p.pc = "probe" ->
                 /\ KaQuiet(p)
                 /\ ProbeUnhealthy(p) =>
                       \E q \in pending' : q.kind = "ka" /\ q.pc = "t500" /\ q.rec = p.rec
                 /\ ~ProbeUnhealthy(p) =>
                       \A q \in pending' : Fresh(q) => q.kind # "ka"
            [] p.pc = "t500" ->
                 IF instances[p.id] = NoRec THEN KaVerdict(p, TRUE)
                 ELSE /\ KaQuiet(p)
                      /\ \E q \in pending' : q.kind = "ka" /\ q.pc = "recheck" /\ q.rec = p.rec
            [] p.pc = "recheck" -> KaVerdict(p, ProbeUnhealthy(p))
            [] OTHER -> TRUE
    ]_vars

\* a keep-alive probe and its re-check have failed on a ready instance: it is
\* disconnected, its client still running, and the reconnection is scheduled
C28_Witness ==
    /\ KaTimer("a") \in pending
    /\ instances["a"] # NoRec /\ Registered("a").status = "disconnected"
    /\ Registered("a").keepAlive
    /\ faults = 2

\* a keep-alive timer is started only in a step that leaves its instance ready
C29_StartedOnReady ==
    [][\A r \in RecIds : heap'[r].keepAlive /\ ~heap[r].keepAlive =>
          heap'[r].status = "ready"]_vars

\* C29: a keep-alive timer is started only when an instance becomes ready, and
\* no keep-alive timer remains active for an instance once it has become
\* disconnected (by client event, health monitor or keep-alive re-check) or
\* has been destroyed.
C29_KeepAliveOwned ==
    [][\A r \in RecIds :
          /\ heap'[r].keepAlive /\ ~heap[r].keepAlive => heap'[r].status = "ready"
          /\ heap'[r].keepAlive =>
                /\ heap'[r].status # "disconnected"
                /\ instances'[heap'[r].id] = r
    ]_vars

\* the same for destroyed instances alone
C29_NoneAfterDestroy ==
    \A r \in RecIds : heap[r].keepAlive => instances[heap[r].id] = r


\* an attempt suspended at the race of initialize() against the 120 s timer
StartRacing == {p \in pending : p.kind = "attempt" /\ p.pc = "init"}

\* the state right after the 120 s timer won the race of attempt p
StartTimedOut(p) == reinitializeDone(St, p, "timeout")

\* the listeners of client c run on event ev, if c is still running
Delivered(T, c, ev) ==
    IF c # NoClient /\ T.cl[c].st = "alive" /\ T.cl[c].rec # NoRec
    THEN onEvent(T, T.cl[c].rec, ev)
    ELSE T

\* the attempt that times out fails: status disconnected, the flag cleared, a retry armed
C30_TimeoutFails ==
    \A p \in StartRacing :
        /\ StartTimedOut(p).heap[p.rec].status = "disconnected"
        /\ ~StartTimedOut(p).heap[p.rec].reconnecting
        /\ \E q \in StartTimedOut(p).pend : q.kind = "timer" /\ q.origin = "retry" /\ q.rec = p.rec

\* C30: when the start of the new client inside reinitializeInstance exceeds its
\* 120 s bound the attempt fails with status disconnected, and whatever the
\* abandoned start produces later (its ready, authenticated or qr event) changes
\* no field of the instance
C30_LateCompletionDiscarded ==
    \A p \in StartRacing :
        /\ StartTimedOut(p).heap[p.rec].status = "disconnected"
        /\ \A ev \in {"ready", "authenticated", "qr"} :
              Delivered(StartTimedOut(p), p.client, ev).heap[p.rec] = StartTimedOut(p).heap[p.rec]

\* the abandoned client was running when the timer won, so its events still arrive
C30_AbandonedRunning ==
    \E p \in StartRacing : clientSt(p.client) = "alive" /\ clients[p.client].rec = p.rec

\* in the run itself: an instance is ready while the retry armed by a failed
\* attempt of its own is still pending
C30_ReadyWhileRetryArmed ==
    \E q \in pending :
        /\ q.kind = "timer" /\ q.origin = "retry"
        /\ heap[q.rec].status = "ready"
        /\ instances[q.id] = q.rec

\* the retry timers armed by failed attempts
RetryTimers == {p \in pending : p.kind = "timer" /\ p.origin = "retry"}

\* the attempts the callback of retry timer p starts
RetryStarts(p) ==
    {q \in retryTimerFires(St, p).pend \ pending : q.kind = "attempt"}

\* the retries of a registered instance are used up and none is under way
Exhausted(r) ==
    /\ heap[r].id # "none"
    /\ instances[heap[r].id] = r
    /\ heap[r].status = "disconnected"
    /\ ~heap[r].reconnecting
    /\ heap[r].reconnectAttempts >= maxReconnectAttempts

\* a reinitialize that fails clears reconnecting, leaves the status
\* disconnected and arms the retry timer
C31_FailureArmsRetry ==
    \A p \in StartRacing, o \in {"rejected", "timeout"} :
        LET T == reinitializeDone(St, p, o) IN
        /\ T.heap[p.rec].status = "disconnected"
        /\ ~T.heap[p.rec].reconnecting
        /\ \E q \in T.pend : q.kind = "timer" /\ q.origin = "retry" /\ q.rec = p.rec

\* when the delay elapses the callback starts an attempt exactly if
\* reconnectAttempts is below maxReconnectAttempts, and that attempt rebuilds
\* (it is called for an id that is registered and has no attempt under way)
C31_RetryIffBelowBound ==
    \A p \in RetryTimers :
        LET g == instances[p.id] IN
        (g # NoRec /\ ~heap[g].reconnecting) =>
            /\ RetryStarts(p) # {} <=> heap[p.rec].reconnectAttempts < maxReconnectAttempts
            /\ \A q \in RetryStarts(p) : q.pc = "destroy" /\ q.origin = "retry"
            /\ retryTimerFires(St, p).heap[g].status = heap[g].status

\* once the retries are used up the sweep that examines the instance next
\* finalizes it as failed
C31_SweepFinalizes ==
    \A r \in RecIds :
        Exhausted(r) =>
            /\ sweepEligible(heap[r])
            /\ attemptAutoReconnection(St, heap[r].id, "sweep").heap[r].status = "failed"

\* C31: a reconnection attempt whose reinitialize fails clears reconnecting and
\* leaves the status disconnected; when the fixed delay has elapsed another
\* attempt is started if and only if reconnectAttempts is still below
\* maxReconnectAttempts; with the attempts exhausted no attempt is scheduled and
\* the next sweep finalizes the instance as failed
C31_RetryOrFinalize ==
    C31_FailureArmsRetry /\ C31_RetryIffBelowBound /\ C31_SweepFinalizes

\* the retries of an instance that lost hasValidAuth are used up
C31_ExhaustedUnauthenticated ==
    \E r \in RecIds : Exhausted(r) /\ ~heap[r].hasValidAuth /\ RetryTimers = {}

\* the retries of an instance that kept hasValidAuth are used up
C31_ExhaustedAuthenticated ==
    \E r \in RecIds : Exhausted(r) /\ heap[r].hasValidAuth

\* the sweep does finalize an exhausted instance that kept hasValidAuth
C31_SweepFinalizesAuthenticated ==
    \A r \in RecIds :
        (Exhausted(r) /\ heap[r].hasValidAuth) =>
            /\ sweepEligible(heap[r])
            /\ attemptAutoReconnection(St, heap[r].id, "sweep").heap[r].status = "failed"

\* the attempts that step from pending to pending' takes from the end of
\* client.destroy() to the start of the new client
Rebuilt == {p \in pending : p.kind = "attempt" /\ p.pc = "destroy" /\ Settled(p)}

\* the fields of a record that reinitializeInstance does not write
Kept(h) == [id |-> h.id, hasValidAuth |-> h.hasValidAuth, skipQR |-> h.skipQR,
            isRecovered |-> h.isRecovered, reconnectAttempts |-> h.reconnectAttempts,
            reconnecting |-> h.reconnecting, keepAlive |-> h.keepAlive]

\* C32: reinitializeInstance keeps the registry entry and the id, replaces the
\* client by a brand-new one that it starts (the old one is torn down, whatever
\* its destroy() did, and nothing waits for it any more), sets the status to
\* initializing and clears the QR payload; hasValidAuth, isRecovered and
\* reconnectAttempts are left as they were; an unknown id fails with NotFound
\* and nothing is done
C32_Reinitialize ==
    [][/\ \A p \in Rebuilt :
             LET r == p.rec
                 c == heap'[r].client
             IN /\ instances' = instances
                /\ c # NoClient
                /\ clients'[c] = [NewClient EXCEPT !.st = "alive", !.rec = instances[p.id]]
                /\ \A q \in pending' :
                      q.client = c => q = Pend("attempt", "init", p.id, r, c, p.origin, 0)
                /\ Pend("attempt", "init", p.id, r, c, p.origin, 0) \in pending'
                /\ \A d \in ClientIds : d # c => clients'[d] \in {clients[d], FreeClient}
                /\ p.client # NoClient /\ p.client # c => clients'[p.client] = FreeClient
                /\ heap'[r].status = "initializing"
                /\ ~heap'[r].qr
                /\ Kept(heap'[r]) = Kept(heap[r])
                /\ \A g \in RecIds \ {r} : heap'[g] = heap[g]
       /\ \A id \in AllIds :
             instances[id] = NoRec =>
                reinitializeInstance(St, id, "manual") =
                   [St EXCEPT !.out = Out("reinitializeInstance", id, "NotFound")]
    ]_vars

\* a rebuilt client has just been started for an authenticated instance whose
\* earlier attempts failed
C32_Witness ==
    \E p \in pending :
        /\ p.kind = "attempt" /\ p.pc = "init"
        /\ instances[p.id] = p.rec
        /\ heap[p.rec].client = p.client
        /\ clientSt(p.client) = "alive"
        /\ heap[p.rec].status = "initializing"
        /\ heap[p.rec].hasValidAuth
        /\ heap[p.rec].reconnectAttempts > 1

\* the probes of the health monitor that are in flight
HmProbes == {p \in pending : p.kind = "hm"}

\* C33: the health monitor only ever takes an instance from ready to
\* disconnected: when the probe it awaited has failed it writes disconnected
\* only over a status that is still ready, never over one that changed while the
\* probe was in flight
C33_OnlyReadyToDisconnected ==
    \A p \in HmProbes :
        healthProbeDone(St, p, FALSE).heap[p.rec].status # heap[p.rec].status =>
            heap[p.rec].status = "ready"

\* a probe of the health monitor is in flight for an instance that a
\* reinitialize has meanwhile set to initializing
C33_ProbeOutlivesReady ==
    \E p \in HmProbes :
        /\ instances[p.id] = p.rec
        /\ heap[p.rec].status = "initializing"
        /\ heap[p.rec].reconnecting

\* the probe is started only for an instance that is ready
C33_ProbedWhenReady ==
    [][\A p \in pending' : p.kind = "hm" /\ Fresh(p) => heap[p.rec].status = "ready"]_vars

\* the step is the catch branch of a batch: the call moves on although the races
\* of the batch are open and their lookups stay with the client
BatchTimedOut ==
    /\ call.pc = "batch"
    /\ Racing(call.items) # {}
    /\ call' # call
    /\ \A k \in Racing(call.items) :
          [pos |-> call.i + k, contactId |-> call.items[k].contactId,
           abandoned |-> FALSE] \in lookups'

\* the ids of the batch the call is at
BatchIds == LET b == slice(call.ids, call.i, call.i + call.batchSize)
            IN {b[k] : k \in DOMAIN b}

\* the map once the step is over: the one returned, or the one under construction
MapAfter == IF call'.pc = "idle" THEN out'.res.map ELSE call'.map

\* the step settles the race of an item whose batch was given up
LateResult == \E l \in Orphans : l \notin lookups'

\* C34: when a batch of getMultipleProfilePics does not complete within its
\* timeout, every id of that batch is mapped to null and the loop goes on with
\* the next batch (or returns the map after the last one); what the lookups of
\* that batch deliver later changes neither the map under construction nor a
\* returned one
C34_BatchTimeout ==
    [][/\ BatchTimedOut =>
             /\ \A c \in BatchIds : MapAfter[c] = Null
             /\ \A c \in ContactIds \ BatchIds :
                   call.map[c] # Unset => MapAfter[c] = call.map[c]
             /\ IF call'.pc = "idle"
                THEN /\ out'.tag = "getMultipleProfilePics"
                     /\ out'.res.ids = call.ids
                     /\ Complete(out'.res)
                ELSE /\ call'.i >= call.i + call.batchSize
                     /\ call'.i < Len(call.ids)
                     /\ call'.ids = call.ids
       /\ LateResult => call' = call /\ out' = NoOut
    ]_vars

\* a call returned null for an id of a batch that timed out while the lookup of
\* that id is still with the client
C34_Witness ==
    /\ out.tag = "getMultipleProfilePics"
    /\ \E l \in lookups : ~l.abandoned /\ out.res.map[l.contactId] = Null

\* the lookup of a batch that timed out has delivered a url, which is cached,
\* after the call moved on with null for that id
C34_LateUrlCached ==
    /\ call.pc # "idle"
    /\ \E c \in ContactIds :
          /\ call.map[c] = Null
          /\ profilePicCache[cacheKey(call.id, c)].url \in Urls

\* the instance of id is registered, disconnected and holds valid credentials
AwaitsReconnection(id) ==
    Registered(id).status = "disconnected" /\ Registered(id).hasValidAuth

\* no reconnection attempt and no timer is pending for id
NothingPending(id) ==
    \A p \in pending : p.id = id => p.kind \notin {"attempt", "timer"}

\* the counters stay below the cap of the model
InBounds == \A r \in RecIds : heap[r].reconnectAttempts < AttemptCap

C35_ReachesFailed ==
    \A id \in Ids : AwaitsReconnection(id) ~> (Registered(id).status = "failed")

C35_ThenIdle ==
    \A id \in Ids : (Registered(id).status = "failed") ~> []NothingPending(id)

\* C35: where every reinitialize fails, an instance that is disconnected with
\* hasValidAuth true eventually reaches the status failed, and afterwards no
\* retry timer and no attempt remains pending for it
C35_Terminates ==
    []InBounds => (C35_ReachesFailed /\ C35_ThenIdle)

\* the same where the clients under rebuild emit nothing: the only event of the
\* run is the ready that preceded the failure
C35_TerminatesQuiet ==
    ([]InBounds /\ [](faults <= 1)) => (C35_ReachesFailed /\ C35_ThenIdle)

\* a rebuild starts only with the counter at or below maxReconnectAttempts
C35_AtMostBound ==
    [][\A p \in Rebuilt : heap[p.rec].reconnectAttempts <= maxReconnectAttempts]_vars

\* the retries are used up for an instance whose rebuilt client reported a
\* failed authentication
C35_Stuck ==
    \E r \in RecIds : Exhausted(r) /\ ~heap[r].hasValidAuth /\ pending = {}

\* a ready instance was marked disconnected by the health monitor and no client
\* has emitted anything since
C35_QuietStart == \E id \in Ids : AwaitsReconnection(id) /\ faults = 1

\* C36: an instance that reached ready, with hasValidAuth true, and then gets
\* the disconnected event of its client stays eligible for automatic
\* reconnection: the event leaves hasValidAuth true, so the sweep that examines
\* the instance next starts a reconnection attempt for it
C36_StaysEligible ==
    \A r \in Listening :
        (heap[r].status = "ready" /\ heap[r].hasValidAuth /\ ~heap[r].reconnecting) =>
            LET T == onEvent(St, r, "disconnected") IN
            /\ T.heap[r].status = "disconnected"
            /\ T.heap[r].hasValidAuth
            /\ sweepEligible(T.heap[r])

\* in the run itself: a registered instance is disconnected by the event of the
\* client it still holds, with nothing pending, and the sweep passes it over
C36_LeftDisconnected ==
    \E id \in Ids :
        /\ Registered(id).status = "disconnected"
        /\ ~Registered(id).hasValidAuth
        /\ Registered(id).reconnectAttempts = 0
        /\ clientSt(Registered(id).client) = "alive"
        /\ pending = {}
        /\ ~sweepEligible(Registered(id))

\* what the two listeners of the event leave: status disconnected, the count of
\* attempts at 0, hasValidAuth false
C36_DisconnectedResets ==
    \A r \in Listening :
        LET T == onEvent(St, r, "disconnected") IN
        /\ T.heap[r].status = "disconnected"
        /\ T.heap[r].reconnectAttempts = 0
        /\ ~T.heap[r].hasValidAuth

\* C37: the auto-reconnector starts the rebuild of a client only while the
\* status of the instance is disconnected, whichever trigger made the call: the
\* sweep, the 1 s timer of the health monitor or of the keep-alive loop, the 5 s
\* retry or the manual route
C37_OnlyWhenDisconnected ==
    [][\A p \in StartedAttempts : heap[p.rec].status = "disconnected"]_vars

\* the sweep and the manual route do look at the status before they call
C37_CheckedTriggers ==
    [][\A p \in StartedAttempts :
          p.origin \in {"sweep", "manual"} => heap[p.rec].status = "disconnected"]_vars

\* the client of an instance that is ready again is about to be torn down by
\* an attempt that a one-shot timer started
C37_ReadyTornDown ==
    \E p \in pending :
        /\ p.kind = "attempt" /\ p.pc = "destroy"
        /\ p.origin \in {"hm", "ka", "retry"}
        /\ instances[p.id] = p.rec
        /\ heap[p.rec].status = "ready"
        /\ clientSt(p.client) = "alive"

\* C38: every reconnection attempt resolves and leaves reconnecting false:
\* whenever the flag of an instance becomes true it later becomes false again,
\* so it never stays set for ever
C38_FlagCleared ==
    \A r \in RecIds : heap[r].reconnecting ~> ~heap[r].reconnecting

\* the same for the runs in which every awaited client.destroy() settles
C38_ClearedIfDestroySettles == DestroySettles => C38_FlagCleared

\* an attempt has set the flag and waits for client.destroy() of a running client
C38_AwaitsDestroy ==
    \E p \in pending :
        /\ p.kind = "attempt" /\ p.pc = "destroy"
        /\ heap[p.rec].reconnecting
        /\ clientSt(p.client) = "alive"

\* the records of id whose keep-alive interval is armed
KeepAliveTimers(id) == {r \in RecIds : heap[r].id = id /\ heap[r].keepAlive}

\* C39: at any time at most one keep-alive timer is active per instance id,
\* across repeated ready events, reinitialize and the recovery of the wrapper,
\* which registers a new record for the id; a superseded timer does not go on
C39_OneKeepAlive ==
    \A id \in AllIds : Cardinality(KeepAliveTimers(id)) <= 1

\* the interval of a record is armed although another record holds the id
C39_Superseded ==
    \E r \in RecIds :
        /\ heap[r].keepAlive
        /\ instances[heap[r].id] \notin {r, NoRec}

\* the attempts about to replace the client of their instance
AboutToRebuild ==
    {p \in pending : /\ p.kind = "attempt" /\ p.pc = "destroy"
                     /\ FreeClientSlots(destroyClient(St, p.client)) # {}}

\* the 'qr' listeners suspended at their await for the record of attempt p: they
\* belong to events of a client that the rebuild of p tears down
SuspendedQr(p) == {q \in pending : q.kind = "qrgen" /\ q.rec = p.rec}

\* C40: once a rebuild has replaced the client of an instance, what the old
\* client's events still do never changes the status, hasValidAuth, the QR
\* payload, reconnectAttempts or the keep-alive timer of the instance
C40_OldClientIgnored ==
    \A p \in AboutToRebuild :
        LET T == reinitializeRebuild(St, p) IN
        \A q \in SuspendedQr(p) :
            q \in T.pend => onQrGenerated(T, q).heap[p.rec] = T.heap[p.rec]

\* in the run itself: an instance under rebuild, which cleared the QR payload,
\* holds a payload again before its new client has reported anything
C40_StaleQr ==
    \E p \in pending :
        /\ p.kind = "attempt" /\ p.pc = "init"
        /\ heap[p.rec].status = "initializing"
        /\ heap[p.rec].qr

\* apart from the payload the late listener writes nothing
C40_OnlyQr ==
    \A p \in AboutToRebuild :
        LET T == reinitializeRebuild(St, p) IN
        \A q \in SuspendedQr(p) :
            q \in T.pend =>
                [onQrGenerated(T, q).heap[p.rec] EXCEPT !.qr = FALSE] = T.heap[p.rec]

====
